---- MODULE Spec2Model ----
(***************************************************************************)
(* hx, a hex editor for the terminal: the editing state machine, the       *)
(* cursor/offset/scroll arithmetic and the undo/redo list of editor.c and  *)
(* undo.c.                                                                 *)
(*                                                                         *)
(* Conventions.                                                            *)
(*  - A byte is a number in 0..255; a C `char' is kept as its byte.        *)
(*  - An `int' is kept as its value.  An `unsigned int' is kept as the     *)
(*    32-bit two's complement reading of its bit pattern, so 0xFFFFFFFF is *)
(*    kept as -1: sums, differences and conversions to and from `int' are  *)
(*    then the identity, and only comparisons (UGe, UGt, ULe) differ.      *)
(*  - The linked list of actions is kept as the sequence head..tail; a     *)
(*    pointer to an action is its index, and 0 is NULL.                    *)
(*  - The editor struct is handled as a record `e'; every C function is an *)
(*    operator from a record to a record (or to the set of its outcomes    *)
(*    when the environment or undefined behaviour decides).                *)
(***************************************************************************)
EXTENDS Integers, Sequences, FiniteSets, TLC

VARIABLES
    contents,         \* e->contents[0 .. content_length-1]
    dirty,            \* e->dirty
    cursor_x,         \* e->cursor_x
    cursor_y,         \* e->cursor_y
    line,             \* e->line
    octets_per_line,  \* e->octets_per_line
    grouping,         \* e->grouping
    screen_rows,      \* e->screen_rows
    mode,             \* e->mode
    status_severity,  \* e->status_severity
    status_message,   \* e->status_message (which message, not its text)
    inputbuffer,      \* e->inputbuffer[0 .. inputbuffer_index-1]
    searchstr,        \* e->searchstr
    hexstr,           \* static hexstr[0 .. hexstr_idx-1] of editor_read_hex_input
    actions,          \* e->undo_list: the actions head..tail
    curr,             \* e->undo_list->curr (index into actions, 0 = NULL)
    curr_status,      \* e->undo_list->curr_status
    run,              \* "starting", "running", "exited", "crashed" or "undefined"
    site,             \* where the process exited or went wrong
    disk,             \* the bytes of the file e->filename on disk
    startfile,        \* what the file name given at startup names
    nedits,           \* number of calls of action_list_add so far
    orig,             \* the buffer as loaded
    edited,           \* the buffer right after the last recorded edit
    changed,          \* the buffer's bytes changed since load / last good save
    typed_n,          \* bytes entered since the current insert/append mode began
    typed_at,         \* offset at the cursor when the first of them was entered
    saved,            \* what the save of the last step did to the file, if any
    snap              \* snap[i]: the buffer as it was when action i was recorded

vars == <<contents, dirty, cursor_x, cursor_y, line, octets_per_line, grouping,
          screen_rows, mode, status_severity, status_message, inputbuffer,
          searchstr, hexstr, actions, curr, curr_status, run, site, disk,
          nedits, orig, edited, changed, typed_n, typed_at, saved, snap,
          startfile>>

(***************************************************************************)
(* C integer arithmetic.                                                   *)
(***************************************************************************)
\* C's `/' and `%' on int: truncation toward zero (b > 0).
CDiv(a, b) == IF a >= 0 THEN a \div b ELSE -((-a) \div b)
CMod(a, b) == a - b * CDiv(a, b)

\* Comparisons of two unsigned ints, each kept as its two's complement reading.
UGe(a, b) == IF (a < 0) = (b < 0) THEN a >= b ELSE a < 0
UGt(a, b) == IF (a < 0) = (b < 0) THEN a > b ELSE a < 0
ULe(a, b) == UGe(b, a)

\* Conversion to (unsigned) char.
Byte(v) == v % 256

(***************************************************************************)
(* Key codes (util.h) and the characters the editor tests for.             *)
(***************************************************************************)
KEY_CTRL_D == 4
KEY_CTRL_Q == 17
KEY_CTRL_R == 18
KEY_CTRL_S == 19
KEY_CTRL_U == 21
KEY_ESC == 27
KEY_ENTER == 13
KEY_BACKSPACE == 127
KEY_UP == 1000
KEY_DOWN == 1001
KEY_RIGHT == 1002
KEY_LEFT == 1003
KEY_DEL == 1004
KEY_HOME == 1005
KEY_END == 1006
KEY_PAGEUP == 1007
KEY_PAGEDOWN == 1008
\* read_key() returns -1 when read() is interrupted by a signal.
KEY_NONE == -1

INPUT_BUF_SIZE == 80

\* ASCII codes of the characters named in the source.
Ch == [a |-> 97, A |-> 65, b |-> 98, B |-> 66, C |-> 67, f |-> 102, g |-> 103,
       G |-> 71, h |-> 104, i |-> 105, I |-> 73, j |-> 106, k |-> 107,
       l |-> 108, n |-> 110, N |-> 78, q |-> 113, r |-> 114, u |-> 117,
       w |-> 119, x |-> 120, d0 |-> 48, d1 |-> 49, d4 |-> 52, d9 |-> 57,
       F |-> 70, lbracket |-> 91, rbracket |-> 93, colon |-> 58,
       slash |-> 47, bang |-> 33, backslash |-> 92, space |-> 32,
       tilde |-> 126, e |-> 101, s |-> 115, t |-> 116, o |-> 111, p |-> 112,
       c |-> 99, z |-> 122, eq |-> 61, plus |-> 43, minus |-> 45]

\* <ctype.h> in the C locale, on an int holding a key code.
isdigit(c) == c >= Ch.d0 /\ c <= Ch.d9
isxdigit(c) == isdigit(c) \/ (c >= Ch.a /\ c <= Ch.f) \/ (c >= Ch.A /\ c <= Ch.F)
isprint(c) == c >= Ch.space /\ c <= Ch.tilde

\* hex2bin on one character: its digit value, 0 for anything else.
HexDigit(c) ==
    IF Ch.d0 <= c /\ c <= Ch.d9 THEN c - Ch.d0
    ELSE IF Ch.a <= c /\ c <= Ch.f THEN 10 + c - Ch.a
    ELSE IF Ch.A <= c /\ c <= Ch.F THEN 10 + c - Ch.A
    ELSE 0

\* hex2bin(s) on the two characters s[1], s[2].
hex2bin(s) == HexDigit(s[2]) + HexDigit(s[1]) * 16

(***************************************************************************)
(* The editor record.                                                      *)
(***************************************************************************)
Cur == [contents |-> contents, dirty |-> dirty, cursor_x |-> cursor_x,
        cursor_y |-> cursor_y, line |-> line,
        octets_per_line |-> octets_per_line, grouping |-> grouping,
        screen_rows |-> screen_rows, mode |-> mode,
        status_severity |-> status_severity,
        status_message |-> status_message, inputbuffer |-> inputbuffer,
        searchstr |-> searchstr, hexstr |-> hexstr, actions |-> actions,
        curr |-> curr, curr_status |-> curr_status, run |-> run,
        site |-> site, disk |-> disk, nedits |-> nedits, edited |-> edited,
        changed |-> changed, saved |-> "none"]

content_length(e) == Len(e.contents)

\* The process stops (exit, or a fault) at `where'; nothing after it runs.
Halt(e, how, where) == [e EXCEPT !.run = how, !.site = where]

\* Undefined behaviour that writes or reads far outside the buffer (a memmove
\* with a wrapped count, an access through an out-of-range index): the process
\* may be killed, or go on in a state about which nothing is known.
WildWrite(e, where) == {Halt(e, "crashed", where), Halt(e, "undefined", where)}

\* Sequential composition: F on every outcome that is still running.
Then(S, F(_)) == UNION {IF t.run = "running" THEN F(t) ELSE {t} : t \in S}

editor_statusmessage(e, sev, msg) ==
    [e EXCEPT !.status_severity = sev, !.status_message = msg]

editor_setmode(e, m) ==
    LET e1 == [e EXCEPT !.mode = m]
    IN  CASE m = "NORMAL" -> editor_statusmessage(e1, "INFO", "")
          [] m = "APPEND" -> editor_statusmessage(e1, "INFO", "-- APPEND --")
          [] m = "APPEND_ASCII" -> editor_statusmessage(e1, "INFO", "-- APPEND ASCII --")
          [] m = "INSERT" -> editor_statusmessage(e1, "INFO", "-- INSERT --")
          [] m = "INSERT_ASCII" -> editor_statusmessage(e1, "INFO", "-- INSERT ASCII --")
          [] m = "REPLACE" -> editor_statusmessage(e1, "INFO", "-- REPLACE --")
          [] OTHER -> e1

(***************************************************************************)
(* undo.c: the action list.                                                *)
(***************************************************************************)
action_list_size(e) == Len(e.actions)

\* action_list_delete(list, action): frees `action' (index i) and all after it.
action_list_delete(e, i) ==
    LET kept == SubSeq(e.actions, 1, i - 1)
        curr_removed == e.curr >= i
        e1 == [e EXCEPT !.actions = kept]
        e2 == IF curr_removed
              THEN [e1 EXCEPT !.curr = Len(kept), !.curr_status = "NODE"]
              ELSE e1
    IN  IF Len(kept) = 0 THEN [e2 EXCEPT !.curr_status = "NOTHING"] ELSE e2

\* action_list_add without the deletion of the nodes after curr: the new
\* action is linked after the old tail, whatever curr is.
action_list_add_keep(e, type, offset, c) ==
    LET added == Append(e.actions, [act |-> type, offset |-> offset, c |-> Byte(c)])
    IN  [e EXCEPT !.actions = added, !.curr = Len(added),
                  !.curr_status = "NODE", !.nedits = e.nedits + 1]

\* action_list_add(list, type, offset, c)
action_list_add(e, type, offset, c) ==
    LET action == [act |-> type, offset |-> offset, c |-> Byte(c)]
        e1 == IF Len(e.actions) # 0 /\ e.curr # Len(e.actions)
              THEN IF e.curr_status = "NODE"
                   THEN action_list_delete(e, e.curr + 1)
                   ELSE IF e.curr_status = "BEFORE_HEAD"
                        THEN action_list_delete(e, 1)
                        ELSE e
              ELSE e
        added == Append(e1.actions, action)
    IN  [e1 EXCEPT !.actions = added, !.curr = Len(added),
                   !.curr_status = "NODE", !.nedits = e.nedits + 1]

\* action_list_move that leaves curr alone when it is before the head or
\* after the tail.
action_list_move_node(e, direction) ==
    IF direction = 0 \/ action_list_size(e) = 0 \/ e.curr_status # "NODE" THEN e
    ELSE IF direction > 0
    THEN IF e.curr = Len(e.actions)
         THEN [e EXCEPT !.curr = 0, !.curr_status = "AFTER_TAIL"]
         ELSE [e EXCEPT !.curr = e.curr + 1]
    ELSE IF e.curr = 1
         THEN [e EXCEPT !.curr = 0, !.curr_status = "BEFORE_HEAD"]
         ELSE [e EXCEPT !.curr = e.curr - 1]

\* action_list_move(list, direction)
action_list_move(e, direction) ==
    IF direction = 0 \/ action_list_size(e) = 0 THEN e
    ELSE IF direction > 0
    THEN CASE e.curr_status = "BEFORE_HEAD" ->
                [e EXCEPT !.curr = 1, !.curr_status = "NODE"]
           [] e.curr_status = "NODE" ->
                IF e.curr = Len(e.actions)
                THEN [e EXCEPT !.curr = 0, !.curr_status = "AFTER_TAIL"]
                ELSE [e EXCEPT !.curr = e.curr + 1]
           [] OTHER -> e
    ELSE CASE e.curr_status = "NODE" ->
                IF e.curr = 1
                THEN [e EXCEPT !.curr = 0, !.curr_status = "BEFORE_HEAD"]
                ELSE [e EXCEPT !.curr = e.curr - 1]
           [] e.curr_status = "AFTER_TAIL" ->
                [e EXCEPT !.curr = Len(e.actions), !.curr_status = "NODE"]
           [] OTHER -> e

(***************************************************************************)
(* editor.c: cursor, offset and scroll arithmetic.                         *)
(***************************************************************************)
\* editor_offset_at_cursor(e): the int it returns.
editor_offset_at_cursor(e) ==
    LET offset == (e.cursor_y - 1 + e.line) * e.octets_per_line + (e.cursor_x - 1)
    IN  IF ULe(offset, 0) THEN 0
        ELSE IF UGe(offset, content_length(e)) THEN content_length(e) - 1
        ELSE offset

\* editor_cursor_at_offset with the row counted from the first line of the
\* buffer instead of from the top line of the window.
editor_cursor_at_offset_noline(e, offset) ==
    [e EXCEPT !.cursor_x = CMod(offset, e.octets_per_line) + 1,
              !.cursor_y = CDiv(offset, e.octets_per_line) + 1]

\* editor_cursor_at_offset that also marks the buffer as modified.
editor_cursor_at_offset_dirty(e, offset) ==
    [e EXCEPT !.cursor_x = CMod(offset, e.octets_per_line) + 1,
              !.cursor_y = CDiv(offset, e.octets_per_line) - e.line + 1,
              !.dirty = TRUE]

\* editor_cursor_at_offset(e, offset, &e->cursor_x, &e->cursor_y)
editor_cursor_at_offset(e, offset) ==
    [e EXCEPT !.cursor_x = CMod(offset, e.octets_per_line) + 1,
              !.cursor_y = CDiv(offset, e.octets_per_line) - e.line + 1]

\* The clamp of e->line shared by editor_scroll and editor_scroll_to_offset.
ClampLine(e) ==
    LET upper_limit == CDiv(content_length(e), e.octets_per_line) - (e.screen_rows - 2)
        l1 == IF e.line >= upper_limit THEN upper_limit ELSE e.line
    IN  [e EXCEPT !.line = IF l1 <= 0 THEN 0 ELSE l1]

\* editor_scroll(e, units)
editor_scroll(e, units) == ClampLine([e EXCEPT !.line = e.line + units])

\* The range of int.
IntMax == 2147483647
IntMin == -IntMax - 1

\* editor_scroll(e, units) for any int units.  e->line += units is a signed
\* addition: when the sum is not an int the behaviour is undefined, and the
\* build either wraps it around (the clamp then runs on the wrapped value) or
\* traps.
editor_scroll_int(e, units) ==
    LET over == units > 0 /\ e.line > IntMax - units
        under == units < 0 /\ e.line < IntMin - units
        wrapped == IF over THEN (e.line + IntMin) + (units + IntMin)
                   ELSE (e.line - IntMin) + (units - IntMin)
    IN  IF ~over /\ ~under
        THEN {editor_scroll(e, units)}
        ELSE {ClampLine([e EXCEPT !.line = wrapped]),
              Halt(e, "crashed", "editor_scroll")}

\* editor_move_cursor(e, dir, amount)
editor_move_cursor(e, dir, amount) ==
    LET e1 == CASE dir = KEY_UP -> [e EXCEPT !.cursor_y = e.cursor_y - amount]
                [] dir = KEY_DOWN -> [e EXCEPT !.cursor_y = e.cursor_y + amount]
                [] dir = KEY_LEFT -> [e EXCEPT !.cursor_x = e.cursor_x - amount]
                [] dir = KEY_RIGHT -> [e EXCEPT !.cursor_x = e.cursor_x + amount]
                [] OTHER -> e
    IN  IF e1.cursor_x <= 1 /\ e1.cursor_y <= 1 /\ e1.line <= 0
        THEN [e1 EXCEPT !.cursor_x = 1, !.cursor_y = 1]
        ELSE
        LET e2 == IF e1.cursor_x < 1
                  THEN IF e1.cursor_y >= 1
                       THEN [e1 EXCEPT !.cursor_y = e1.cursor_y - 1,
                                       !.cursor_x = e1.octets_per_line]
                       ELSE e1
                  ELSE IF e1.cursor_x > e1.octets_per_line
                       THEN [e1 EXCEPT !.cursor_y = e1.cursor_y + 1, !.cursor_x = 1]
                       ELSE e1
            e3 == IF e2.cursor_y <= 1 /\ e2.line <= 0
                  THEN [e2 EXCEPT !.cursor_y = 1]
                  ELSE e2
            e4 == IF e3.cursor_y > e3.screen_rows - 1
                  THEN editor_scroll([e3 EXCEPT !.cursor_y = e3.screen_rows - 1], 1)
                  ELSE IF e3.cursor_y < 1 /\ e3.line > 0
                       THEN editor_scroll([e3 EXCEPT !.cursor_y = 1], -1)
                       ELSE e3
            offset == editor_offset_at_cursor(e4)
        IN  IF UGe(offset, content_length(e4) - 1)
            THEN editor_cursor_at_offset(e4, offset)
            ELSE e4

\* editor_scroll_to_offset(e, offset)
editor_scroll_to_offset(e, offset) ==
    IF UGt(offset, content_length(e))
    THEN editor_statusmessage(e, "ERROR", "Out of range")
    ELSE
    LET offset_min == e.line * e.octets_per_line
        offset_max == offset_min + e.screen_rows * e.octets_per_line
    IN  IF UGe(offset, offset_min) /\ ULe(offset, offset_max)
        THEN editor_cursor_at_offset(e, offset)
        ELSE editor_cursor_at_offset(
                 ClampLine([e EXCEPT !.line = CDiv(offset, e.octets_per_line)
                                              - CDiv(e.screen_rows, 2)]),
                 offset)

(***************************************************************************)
(* editor.c: the byte buffer.                                              *)
(***************************************************************************)
InsertAt(seq, i, b) == SubSeq(seq, 1, i) \o <<b>> \o SubSeq(seq, i + 1, Len(seq))
RemoveAt(seq, i) == SubSeq(seq, 1, i) \o SubSeq(seq, i + 2, Len(seq))

\* editor_delete_char_at_offset(e, offset).  memmove's count is
\* content_length - offset - 1: it wraps to a huge size_t when offset >= length.
editor_delete_char_at_offset(e, offset, where) ==
    IF 0 <= offset /\ offset < content_length(e)
    THEN {[e EXCEPT !.contents = RemoveAt(e.contents, offset)]}
    ELSE WildWrite(e, where)

\* editor_insert_byte_at_offset(e, offset, x, after).  memmove's count is
\* content_length - offset: it wraps when offset > length.
editor_insert_byte_at_offset(e, offset, x, after, where) ==
    LET off == IF after /\ content_length(e) # 0 THEN offset + 1 ELSE offset
    IN  IF 0 <= off /\ off <= content_length(e)
        THEN {[e EXCEPT !.contents = InsertAt(e.contents, off, Byte(x)),
                        !.dirty = TRUE]}
        ELSE WildWrite(e, where)

\* What the action list's last recorded edit left in the buffer.
Recorded(e) == [e EXCEPT !.edited = e.contents]

\* editor_insert_byte(e, x, after)
editor_insert_byte(e, x, after) ==
    LET offset == editor_offset_at_cursor(e)
        rec(t) == {Recorded(action_list_add(
                       t, IF after THEN "ACTION_APPEND" ELSE "ACTION_INSERT",
                       offset, x))}
    IN  Then(editor_insert_byte_at_offset(e, offset, x, after, "editor_insert_byte"),
             rec)

\* editor_delete_char_at_cursor without the test of content_length: the
\* deletion is attempted on the empty buffer as well.
editor_delete_char_at_cursor_unguarded(e) ==
    LET offset == editor_offset_at_cursor(e)
        old_length == content_length(e)
        rest(t) ==
            LET t1 == [t EXCEPT !.dirty = TRUE]
                t2 == IF UGe(offset, old_length - 1)
                      THEN editor_move_cursor(t1, KEY_LEFT, 1)
                      ELSE t1
            IN  {Recorded(action_list_add(t2, "ACTION_DELETE", offset,
                                          e.contents[offset + 1]))}
    IN  Then(editor_delete_char_at_offset(e, offset, "editor_delete_char_at_cursor"),
             rest)

\* editor_delete_char_at_cursor without the move to the left after the last
\* byte was deleted.
editor_delete_char_at_cursor_stay(e) ==
    LET offset == editor_offset_at_cursor(e)
    IN  IF content_length(e) <= 0
        THEN {editor_statusmessage(e, "WARNING", "Nothing to delete")}
        ELSE
        LET charat == e.contents[offset + 1]
            rest(t) == {Recorded(action_list_add([t EXCEPT !.dirty = TRUE],
                                                 "ACTION_DELETE", offset, charat))}
        IN  Then(editor_delete_char_at_offset(e, offset, "editor_delete_char_at_cursor"),
                 rest)

\* editor_delete_char_at_cursor(e)
editor_delete_char_at_cursor(e) ==
    LET offset == editor_offset_at_cursor(e)
        old_length == content_length(e)
    IN  IF content_length(e) <= 0
        THEN {editor_statusmessage(e, "WARNING", "Nothing to delete")}
        ELSE
        LET charat == e.contents[offset + 1]
            rest(t) ==
                LET t1 == [t EXCEPT !.dirty = TRUE]
                    t2 == IF UGe(offset, old_length - 1)
                          THEN editor_move_cursor(t1, KEY_LEFT, 1)
                          ELSE t1
                IN  {Recorded(action_list_add(t2, "ACTION_DELETE", offset, charat))}
        IN  Then(editor_delete_char_at_offset(e, offset, "editor_delete_char_at_cursor"),
                 rest)

\* editor_increment_byte(e, amount).  There is no check of content_length:
\* on an empty buffer contents[offset] is outside the allocation.
editor_increment_byte(e, amount) ==
    LET offset == editor_offset_at_cursor(e)
    IN  IF 0 <= offset /\ offset < content_length(e)
        THEN LET prev == e.contents[offset + 1]
                 e1 == [e EXCEPT !.contents[offset + 1] = Byte(prev + amount)]
             IN  {Recorded(action_list_add(e1, "ACTION_REPLACE", offset, prev))}
        ELSE WildWrite(e, "editor_increment_byte")

\* editor_replace_byte with the new byte recorded in the action instead of
\* the byte that was overwritten.
editor_replace_byte_new(e, x) ==
    LET offset == editor_offset_at_cursor(e)
    IN  IF 0 <= offset /\ offset < content_length(e)
        THEN LET e1 == [e EXCEPT !.contents[offset + 1] = Byte(x)]
                 e2 == editor_move_cursor(e1, KEY_RIGHT, 1)
                 e3 == editor_statusmessage(e2, "INFO", "Replaced byte")
                 e4 == [e3 EXCEPT !.dirty = TRUE]
             IN  {Recorded(action_list_add(e4, "ACTION_REPLACE", offset, x))}
        ELSE WildWrite(e, "editor_replace_byte")

\* editor_replace_byte(e, x)
editor_replace_byte(e, x) ==
    LET offset == editor_offset_at_cursor(e)
    IN  IF 0 <= offset /\ offset < content_length(e)
        THEN LET prev == e.contents[offset + 1]
                 e1 == [e EXCEPT !.contents[offset + 1] = Byte(x)]
                 e2 == editor_move_cursor(e1, KEY_RIGHT, 1)
                 e3 == editor_statusmessage(e2, "INFO", "Replaced byte")
                 e4 == [e3 EXCEPT !.dirty = TRUE]
             IN  {Recorded(action_list_add(e4, "ACTION_REPLACE", offset, prev))}
        ELSE WildWrite(e, "editor_replace_byte")

\* What fwrite may return for n bytes: all of them, none, or (disk full) a part.
FwriteResults(n) == {bw \in {0, n - 1, n} : bw >= 0}

\* editor_writefile(e).  fopen(.., "wb") truncates the file; fwrite's result
\* bw decides between the error message and the reset of dirty.
editor_writefile(e) ==
    {editor_statusmessage([e EXCEPT !.saved = "fopen failed"],
                          "ERROR", "Unable to open for writing")}
    \cup
    {LET e1 == [e EXCEPT !.disk = SubSeq(e.contents, 1, bw)]
         e2 == IF bw = content_length(e)
               THEN [e1 EXCEPT !.changed = FALSE, !.saved = "complete"]
               ELSE [e1 EXCEPT !.saved = "partial"]
     IN  IF bw <= 0
         THEN editor_statusmessage(e2, "ERROR", "Unable write to file")
         ELSE [editor_statusmessage(e2, "INFO", "bytes written")
                   EXCEPT !.dirty = FALSE]
     : bw \in FwriteResults(content_length(e))}

(***************************************************************************)
(* editor.c: undo and redo.                                                *)
(***************************************************************************)
\* `char old_contents = e->contents[action->offset]': a read outside the
\* buffer when the offset is not below content_length.  Its value is used by
\* the ACTION_REPLACE case only; the read itself may fault.
ReadOldContents(e, offset, where) ==
    IF 0 <= offset /\ offset < content_length(e)
    THEN {e}
    ELSE {e, Halt(e, "crashed", where)}

\* The ACTION_REPLACE case without `last_action->c = old_contents': the
\* action's byte is written to the buffer and kept in the action.
SwapReplace_keep(e, i, where) ==
    LET a == e.actions[i]
    IN  IF 0 <= a.offset /\ a.offset < content_length(e)
        THEN {[e EXCEPT !.contents[a.offset + 1] = a.c]}
        ELSE WildWrite(e, where)

\* The ACTION_REPLACE case of editor_undo and editor_redo on action i:
\* the buffer's byte and the action's byte are swapped.
SwapReplace(e, i, where) ==
    LET a == e.actions[i]
    IN  IF 0 <= a.offset /\ a.offset < content_length(e)
        THEN {[e EXCEPT !.contents[a.offset + 1] = a.c,
                        !.actions[i].c = e.contents[a.offset + 1]]}
        ELSE WildWrite(e, where)

\* editor_undo(e)
editor_undo(e) ==
    LET last_action == e.curr
        e1 == IF e.curr_status = "AFTER_TAIL" THEN action_list_move(e, -1) ELSE e
    IN  IF e1.curr_status # "NODE"
        THEN {editor_statusmessage(e1, "INFO", "No action to undo")}
        ELSE IF last_action = 0
        THEN \* last_action->offset through a NULL pointer
             {Halt(e1, "crashed", "editor_undo last_action")}
        ELSE
        LET a == e1.actions[last_action]
            apply(t) ==
                CASE a.act = "ACTION_APPEND" ->
                       editor_delete_char_at_offset(t, a.offset + 1, "editor_undo")
                  [] a.act = "ACTION_DELETE" ->
                       editor_insert_byte_at_offset(t, a.offset, a.c, FALSE, "editor_undo")
                  [] a.act = "ACTION_REPLACE" ->
                       SwapReplace(t, last_action, "editor_undo")
                  [] a.act = "ACTION_INSERT" ->
                       editor_delete_char_at_offset(t, a.offset, "editor_undo")
            finish(t) ==
                {editor_statusmessage(
                     action_list_move(editor_scroll_to_offset(t, a.offset), -1),
                     "INFO", "Reverted")}
        IN  Then(Then(ReadOldContents(e1, a.offset, "editor_undo old_contents"), apply),
                 finish)

\* editor_redo(e)
editor_redo(e) ==
    IF e.curr_status = "AFTER_TAIL" \/ e.curr_status = "NOTHING"
    THEN {editor_statusmessage(e, "INFO", "No action to redo")}
    ELSE IF e.curr_status # "BEFORE_HEAD" /\ e.curr = 0
    THEN \* e->undo_list->curr->next through a NULL pointer
         {Halt(e, "crashed", "editor_redo curr")}
    ELSE
    LET next_action == IF e.curr_status = "BEFORE_HEAD"
                       THEN (IF Len(e.actions) = 0 THEN 0 ELSE 1)
                       ELSE (IF e.curr = Len(e.actions) THEN 0 ELSE e.curr + 1)
    IN  IF next_action = 0
        THEN {editor_statusmessage(e, "INFO", "No action to redo")}
        ELSE
        LET a == e.actions[next_action]
            apply(t) ==
                CASE a.act = "ACTION_APPEND" ->
                       editor_insert_byte_at_offset(t, a.offset, a.c, TRUE, "editor_redo")
                  [] a.act = "ACTION_DELETE" ->
                       editor_delete_char_at_offset(t, a.offset, "editor_redo")
                  [] a.act = "ACTION_REPLACE" ->
                       SwapReplace(t, next_action, "editor_redo")
                  [] a.act = "ACTION_INSERT" ->
                       editor_insert_byte_at_offset(t, a.offset, a.c, FALSE, "editor_redo")
            finish(t) ==
                {editor_statusmessage(
                     action_list_move(editor_scroll_to_offset(t, a.offset), 1),
                     "INFO", "Redone")}
        IN  Then(Then(ReadOldContents(e, a.offset, "editor_redo old_contents"), apply),
                 finish)

(***************************************************************************)
(* editor.c: search.                                                       *)
(***************************************************************************)
ParseError(err) == [err |-> err, parsed |-> <<>>]

\* parse_search_string(inputstr, parsedstr, &err_info), from index i on, with
\* `out' the bytes written to parsedstr so far.
RECURSIVE ParseFrom(_, _, _)
\* parse_search_string with a backslash before any other character taken as
\* that character instead of PARSE_INVALID_ESCAPE.
ParseFrom_lenient(s, i, out) ==
    IF i > Len(s) THEN [err |-> "PARSE_SUCCESS", parsed |-> out]
    ELSE IF s[i] = Ch.backslash
    THEN IF i + 1 > Len(s) THEN ParseError("PARSE_INCOMPLETE_BACKSLASH")
         ELSE IF s[i + 1] = Ch.x
         THEN IF i + 2 > Len(s) \/ i + 3 > Len(s)
              THEN ParseError("PARSE_INCOMPLETE_HEX")
              ELSE IF ~isxdigit(s[i + 2]) \/ ~isxdigit(s[i + 3])
              THEN ParseError("PARSE_INVALID_HEX")
              ELSE ParseFrom(s, i + 4, Append(out, hex2bin(<<s[i + 2], s[i + 3]>>)))
         ELSE ParseFrom(s, i + 2, Append(out, s[i + 1]))
    ELSE ParseFrom(s, i + 1, Append(out, s[i]))

ParseFrom(s, i, out) ==
    IF i > Len(s) THEN [err |-> "PARSE_SUCCESS", parsed |-> out]
    ELSE IF s[i] = Ch.backslash
    THEN IF i + 1 > Len(s) THEN ParseError("PARSE_INCOMPLETE_BACKSLASH")
         ELSE IF s[i + 1] = Ch.backslash
         THEN ParseFrom(s, i + 2, Append(out, Ch.backslash))
         ELSE IF s[i + 1] = Ch.x
         THEN IF i + 2 > Len(s) \/ i + 3 > Len(s)
              THEN ParseError("PARSE_INCOMPLETE_HEX")
              ELSE IF ~isxdigit(s[i + 2]) \/ ~isxdigit(s[i + 3])
              THEN ParseError("PARSE_INVALID_HEX")
              ELSE ParseFrom(s, i + 4, Append(out, hex2bin(<<s[i + 2], s[i + 3]>>)))
         ELSE ParseError("PARSE_INVALID_ESCAPE")
    ELSE ParseFrom(s, i + 1, Append(out, s[i]))

parse_search_string(inputstr) == ParseFrom(inputstr, 1, <<>>)

\* strlen() of a char array holding the bytes `bytes' and then a NUL.
strlen(bytes) ==
    IF \E i \in 1..Len(bytes) : bytes[i] = 0
    THEN (CHOOSE i \in 1..Len(bytes) :
              bytes[i] = 0 /\ \A j \in 1..(i - 1) : bytes[j] # 0) - 1
    ELSE Len(bytes)

\* memcmp(e->contents + p, parsedstr, n) == 0, for 0 <= p < content_length.
\* When p + n exceeds content_length the comparison reads past the buffer:
\* what lies there decides, and the read itself may fault.
Memcmp(e, p, pat, n) ==
    LET inside == IF p + n <= content_length(e) THEN n ELSE content_length(e) - p
        same == \A j \in 1..inside : e.contents[p + j] = pat[j]
    IN  IF n = 0 THEN {"eq"}
        ELSE IF inside = n THEN {IF same THEN "eq" ELSE "ne"}
        ELSE IF same THEN {"eq", "ne", "fault"}
        ELSE {"ne", "fault"}

\* The forward loop: for (; current_offset < content_length; current_offset++).
RECURSIVE SearchForward(_, _, _, _)
SearchForward(e, p, pat, n) ==
    IF UGe(p, content_length(e)) THEN {[kind |-> "none", at |-> 0]}
    ELSE LET r == Memcmp(e, p, pat, n)
         IN  (IF "eq" \in r THEN {[kind |-> "hit", at |-> p]} ELSE {})
             \cup (IF "fault" \in r THEN {[kind |-> "fault", at |-> p]} ELSE {})
             \cup (IF "ne" \in r THEN SearchForward(e, p + 1, pat, n) ELSE {})

\* The backward loop: for (; current_offset-- != 0; ), entered with
\* current_offset = p: the body first runs with current_offset = p - 1.
RECURSIVE SearchBackward(_, _, _, _)
SearchBackward(e, p, pat, n) ==
    IF p = 0 THEN {[kind |-> "none", at |-> 0]}
    ELSE IF p < 0 \/ p - 1 >= content_length(e)
    THEN {[kind |-> "wild", at |-> p - 1]}
    ELSE LET r == Memcmp(e, p - 1, pat, n)
         IN  (IF "eq" \in r THEN {[kind |-> "hit", at |-> p - 1]} ELSE {})
             \cup (IF "fault" \in r THEN {[kind |-> "fault", at |-> p - 1]} ELSE {})
             \cup (IF "ne" \in r THEN SearchBackward(e, p - 1, pat, n) ELSE {})

\* editor_process_search(e, str, dir)
editor_process_search(e, str, dir) ==
    IF str = <<>> THEN {[e EXCEPT !.searchstr = <<>>]}
    ELSE
    LET e1 == [e EXCEPT !.searchstr = str]
        p == parse_search_string(str)
        pat == p.parsed
        n == strlen(pat)
        current_offset == editor_offset_at_cursor(e1)
        found(r) ==
            CASE r.kind = "hit" ->
                   {editor_scroll_to_offset(
                        editor_statusmessage(e1, "INFO", ""), r.at)}
              [] r.kind = "none" ->
                   {editor_statusmessage(e1, "WARNING", "String not found")}
              [] r.kind = "fault" -> {Halt(e1, "crashed", "editor_process_search")}
              [] r.kind = "wild" -> WildWrite(e1, "editor_process_search")
    IN  CASE p.err = "PARSE_INCOMPLETE_BACKSLASH" ->
               {editor_statusmessage(e1, "ERROR", "Nothing follows backslash")}
          [] p.err = "PARSE_INCOMPLETE_HEX" ->
               {editor_statusmessage(e1, "ERROR", "Incomplete hex value")}
          [] p.err = "PARSE_INVALID_HEX" ->
               {editor_statusmessage(e1, "ERROR", "Invalid hex value")}
          [] p.err = "PARSE_INVALID_ESCAPE" ->
               {editor_statusmessage(e1, "ERROR", "Invalid character after backslash")}
          [] OTHER ->
               IF dir = "SEARCH_FORWARD"
               THEN UNION {found(r) : r \in SearchForward(e1, current_offset + 1, pat, n)}
               ELSE IF current_offset = 0
               THEN {editor_statusmessage(e1, "INFO", "Already at start of the file")}
               ELSE UNION {found(r) : r \in SearchBackward(e1, current_offset - 1, pat, n)}

(***************************************************************************)
(* util.c: numbers typed on the command line.                              *)
(***************************************************************************)
\* is_pos_num(s)
is_pos_num(s) == \A i \in 1..Len(s) : isdigit(s[i])

\* is_hex(s): the loop `while (*++ptr)' starts at the second character.
is_hex(s) == \A i \in 2..Len(s) : isxdigit(s[i])

\* The value of the longest prefix of s[i..] made of digits of the base,
\* continuing from acc (strtoimax without sign or overflow).
RECURSIVE DigitsValue(_, _, _, _)
DigitsValue(s, i, base, acc) ==
    IF i > Len(s) THEN acc
    ELSE IF base = 10 /\ isdigit(s[i])
    THEN DigitsValue(s, i + 1, base, acc * 10 + HexDigit(s[i]))
    ELSE IF base = 16 /\ isxdigit(s[i])
    THEN DigitsValue(s, i + 1, base, acc * 16 + HexDigit(s[i]))
    ELSE acc

\* strtoimax(s, &endptr, base) for the lines the model types: an optional
\* sign, then digits.
strtoimax(s, base) ==
    IF Len(s) >= 1 /\ s[1] = Ch.minus THEN -DigitsValue(s, 2, base, 0)
    ELSE IF Len(s) >= 1 /\ s[1] = Ch.plus THEN DigitsValue(s, 2, base, 0)
    ELSE DigitsValue(s, 1, base, 0)

\* str2int(s, min, max, def)
str2int(s, min, max, def) ==
    LET x == strtoimax(s, 10)
    IN  IF x < min \/ x > max THEN def ELSE x

\* hex2int(s)
hex2int(s) == strtoimax(s, 16)

\* clampi(i, min, max)
clampi(i, min, max) == IF i < min THEN min ELSE IF i > max THEN max ELSE i

(***************************************************************************)
(* editor.c: the command line.                                             *)
(***************************************************************************)
IsLower(c) == c >= Ch.a /\ c <= Ch.z

\* The index of the first character of s at or after i that is not in [a-z].
RECURSIVE SkipLower(_, _)
SkipLower(s, i) == IF i <= Len(s) /\ IsLower(s[i]) THEN SkipLower(s, i + 1) ELSE i

RECURSIVE SkipSpaces(_, _)
SkipSpaces(s, i) == IF i <= Len(s) /\ s[i] = Ch.space THEN SkipSpaces(s, i + 1) ELSE i

\* sscanf(cmd, "set %[a-z]=%d", setcmd, &setval) on a cmd that starts with
\* "set": the number of items read, setcmd and setval.
ScanSet(cmd) ==
    LET n0 == SkipSpaces(cmd, 4)
        n1 == SkipLower(cmd, n0)
        name == SubSeq(cmd, n0, n1 - 1)
        n2 == SkipSpaces(cmd, n1 + 1)
        signed == n2 <= Len(cmd) /\ cmd[n2] \in {Ch.minus, Ch.plus}
        n3 == IF signed THEN n2 + 1 ELSE n2
        hasnum == n3 <= Len(cmd) /\ isdigit(cmd[n3])
    IN  IF n1 = n0 THEN [items |-> 0, setcmd |-> <<>>, setval |-> 0]
        ELSE IF ~(n1 <= Len(cmd) /\ cmd[n1] = Ch.eq) \/ ~hasnum
        THEN [items |-> 1, setcmd |-> name, setval |-> 0]
        ELSE [items |-> 2, setcmd |-> name,
              setval |-> strtoimax(SubSeq(cmd, n2, Len(cmd)), 10)]

\* editor_process_command(e, cmd), for a cmd with strlen(cmd) > 0
editor_process_command(e, cmd) ==
    IF is_pos_num(cmd)
    THEN LET offset == str2int(cmd, 0, content_length(e), content_length(e) - 1)
         IN  {editor_statusmessage(editor_scroll_to_offset(e, offset),
                                   "INFO", "Positioned to offset")}
    ELSE IF Len(cmd) >= 2 /\ cmd[1] = Ch.d0 /\ cmd[2] = Ch.x
    THEN LET ptr == SubSeq(cmd, 3, Len(cmd))
         IN  IF ~is_hex(ptr)
             THEN {editor_statusmessage(e, "ERROR", "not valid base 16")}
             ELSE {editor_statusmessage(editor_scroll_to_offset(e, hex2int(ptr)),
                                        "INFO", "Positioned to offset")}
    ELSE IF cmd = <<Ch.w>> THEN editor_writefile(e)
    ELSE IF cmd = <<Ch.q>>
    THEN IF e.dirty
         THEN {editor_statusmessage(e, "ERROR", "No write since last change")}
         ELSE {Halt(e, "exited", "q")}
    ELSE IF cmd = <<Ch.q, Ch.bang>> THEN {Halt(e, "exited", "q!")}
    ELSE IF cmd = <<Ch.h, Ch.e, Ch.l, Ch.p>> THEN {e}
    ELSE IF Len(cmd) >= 3 /\ SubSeq(cmd, 1, 3) = <<Ch.s, Ch.e, Ch.t>>
    THEN LET sc == ScanSet(cmd)
         IN  IF sc.items # 2
             THEN {editor_statusmessage(e, "ERROR", "set command format")}
             ELSE IF sc.setcmd \in {<<Ch.o, Ch.c, Ch.t, Ch.e, Ch.t, Ch.s>>,
                                    <<Ch.o>>}
             THEN LET octets == clampi(sc.setval, 16, 64)
                      offset == editor_offset_at_cursor(e)
                      e1 == [e EXCEPT !.octets_per_line = octets]
                  IN  {editor_statusmessage(editor_scroll_to_offset(e1, offset),
                                            "INFO", "Octets per line set")}
             ELSE IF sc.setcmd \in {<<Ch.g, Ch.r, Ch.o, Ch.u, Ch.p, Ch.i, Ch.n, Ch.g>>,
                                    <<Ch.g>>}
             THEN {editor_statusmessage(
                       [e EXCEPT !.grouping = clampi(sc.setval, 4, 16)],
                       "INFO", "Byte grouping set")}
             ELSE {editor_statusmessage(e, "ERROR", "Unknown option")}
    ELSE {editor_statusmessage(e, "ERROR", "Command not found")}

(***************************************************************************)
(* editor.c: reading input.                                                *)
(***************************************************************************)
\* isprint() and isxdigit() are defined for EOF and the values of unsigned
\* char only; for any other int (the virtual keys 1000..) the result is
\* whatever lies beyond the ctype table.
CtypeResults(c, defined) == IF c >= -1 /\ c <= 255 THEN {defined} ELSE BOOLEAN

\* editor_read_hex_input where Esc leaves the digits typed so far in place.
editor_read_hex_input_keep(e, next) ==
    IF next = KEY_ESC
    THEN {[e |-> editor_setmode(e, "NORMAL"), ret |-> -1, out |-> 0]}
    ELSE
    UNION {
      IF ~printable \/ ~xdigit
      THEN {[e |-> editor_statusmessage(e, "ERROR", "is not valid hex"),
             ret |-> -1, out |-> 0]}
      ELSE LET hs == Append(e.hexstr, Byte(next))
           IN  IF Len(hs) >= 2
               THEN {[e |-> [e EXCEPT !.hexstr = <<>>], ret |-> 0,
                      out |-> hex2bin(hs)]}
               ELSE {[e |-> [e EXCEPT !.hexstr = hs], ret |-> -1, out |-> 0]}
      : printable \in CtypeResults(next, isprint(next)),
        xdigit \in CtypeResults(next, isxdigit(next))}

\* editor_read_hex_input(e, &out) with read_key() = next: the outcomes
\* [e, ret, out], ret = 0 when a byte is complete.
editor_read_hex_input(e, next) ==
    IF next = KEY_ESC
    THEN {[e |-> [editor_setmode(e, "NORMAL") EXCEPT !.hexstr = <<>>],
           ret |-> -1, out |-> 0]}
    ELSE
    UNION {
      IF ~printable
      THEN {[e |-> editor_statusmessage(e, "ERROR", "unprintable character"),
             ret |-> -1, out |-> 0]}
      ELSE UNION {
        IF ~xdigit
        THEN {[e |-> editor_statusmessage(e, "ERROR", "is not valid hex"),
               ret |-> -1, out |-> 0]}
        ELSE LET hs == Append(e.hexstr, Byte(next))
             IN  IF Len(hs) >= 2
                 THEN {[e |-> [e EXCEPT !.hexstr = <<>>], ret |-> 0,
                        out |-> hex2bin(hs)]}
                 ELSE {[e |-> [e EXCEPT !.hexstr = hs], ret |-> -1, out |-> 0]}
        : xdigit \in CtypeResults(next, isxdigit(next))}
      : printable \in CtypeResults(next, isprint(next))}

\* editor_read_string where Backspace leaves for normal mode whatever the
\* line holds.
editor_read_string_bs(e, c) ==
    IF c = KEY_ENTER \/ c = KEY_ESC
    THEN {[e |-> [editor_setmode(e, "NORMAL") EXCEPT !.inputbuffer = <<>>],
           c |-> c, dst |-> e.inputbuffer]}
    ELSE IF c = KEY_BACKSPACE
    THEN {[e |-> editor_setmode(e, "NORMAL"), c |-> c, dst |-> <<>>]}
    ELSE {IF ~printable
          THEN [e |-> e, c |-> c, dst |-> <<>>]
          ELSE [e |-> [e EXCEPT !.inputbuffer = Append(e.inputbuffer, Byte(c))],
                c |-> c, dst |-> <<>>]
          : printable \in CtypeResults(c, isprint(c))}

\* editor_read_string(e, dst, len) with read_key() = c: the outcomes
\* [e, c, dst]; dst is written on Enter and Esc only.
editor_read_string(e, c) ==
    IF c = KEY_ENTER \/ c = KEY_ESC
    THEN {[e |-> [editor_setmode(e, "NORMAL") EXCEPT !.inputbuffer = <<>>],
           c |-> c, dst |-> e.inputbuffer]}
    ELSE IF c = KEY_BACKSPACE /\ Len(e.inputbuffer) > 0
    THEN {[e |-> [e EXCEPT !.inputbuffer = SubSeq(e.inputbuffer, 1, Len(e.inputbuffer) - 1)],
           c |-> c, dst |-> <<>>]}
    ELSE IF Len(e.inputbuffer) >= INPUT_BUF_SIZE
    THEN {[e |-> e, c |-> c, dst |-> <<>>]}
    ELSE IF c = KEY_BACKSPACE /\ Len(e.inputbuffer) = 0
    THEN {[e |-> editor_setmode(e, "NORMAL"), c |-> c, dst |-> <<>>]}
    ELSE {IF ~printable
          THEN [e |-> e, c |-> c, dst |-> <<>>]
          ELSE [e |-> [e EXCEPT !.inputbuffer = Append(e.inputbuffer, Byte(c))],
                c |-> c, dst |-> <<>>]
          : printable \in CtypeResults(c, isprint(c))}

(***************************************************************************)
(* editor.c: editor_process_keypress, one branch per mode.                 *)
(***************************************************************************)
\* The keys handled in every mode that reaches the final read_key().
GlobalKey(e, c) ==
    CASE c = KEY_ESC -> {editor_setmode(e, "NORMAL")}
      [] c = KEY_CTRL_Q -> {Halt(e, "exited", "KEY_CTRL_Q")}
      [] c = KEY_CTRL_S -> editor_writefile(e)

IsGlobalKey(c) == c \in {KEY_ESC, KEY_CTRL_Q, KEY_CTRL_S}

\* mode & (MODE_INSERT | MODE_APPEND)
KeypressHex(e, k) ==
    UNION {
      IF r.ret # -1
      THEN LET right(t) == {editor_move_cursor(t, KEY_RIGHT, 1)}
           IN  Then(editor_insert_byte(r.e, r.out, e.mode = "APPEND"), right)
      ELSE {r.e}
      : r \in editor_read_hex_input(e, k)}

\* mode & (MODE_INSERT_ASCII | MODE_APPEND_ASCII): `char c = read_key()'
KeypressAscii(e, k) ==
    LET c == Byte(k)
        right(t) == {editor_move_cursor(t, KEY_RIGHT, 1)}
    IN  IF c = KEY_ESC THEN {editor_setmode(e, "NORMAL")}
        ELSE Then(editor_insert_byte(e, c, e.mode = "APPEND_ASCII"), right)

\* mode & MODE_REPLACE.  On an empty buffer the branch sets the error and
\* falls through to the final read_key() and the global keys.
KeypressReplace(e, k) ==
    IF content_length(e) > 0
    THEN UNION {IF r.ret # -1 THEN editor_replace_byte(r.e, r.out) ELSE {r.e}
                : r \in editor_read_hex_input(e, k)}
    ELSE LET e1 == editor_statusmessage(e, "ERROR", "File is empty, nothing to replace")
         IN  IF k = KEY_NONE THEN {e1}
             ELSE IF IsGlobalKey(k) THEN GlobalKey(e1, k)
             ELSE {e1}

\* mode & MODE_COMMAND with the line executed whenever editor_read_string
\* returns it, on Esc as on Enter.
KeypressCommand_esc(e, k) ==
    UNION {IF r.c \in {KEY_ENTER, KEY_ESC} /\ strlen(r.dst) > 0
           THEN editor_process_command(r.e, r.dst)
           ELSE {r.e}
           : r \in editor_read_string(e, k)}

\* `char cmd[INPUT_BUF_SIZE]' after strncpy(cmd, e->inputbuffer, len) of a
\* line of INPUT_BUF_SIZE characters: no terminating NUL was copied, and
\* strlen(cmd) reads past the array.  The read may fault, or go on through
\* whatever follows the array on the stack.
Unterminated(e, dst, where) ==
    IF Len(dst) >= INPUT_BUF_SIZE THEN WildWrite(e, where) ELSE {}

\* mode & MODE_COMMAND
KeypressCommand(e, k) ==
    UNION {(IF r.c = KEY_ENTER /\ strlen(r.dst) > 0
            THEN editor_process_command(r.e, r.dst)
            ELSE {r.e})
           \cup (IF r.c \in {KEY_ENTER, KEY_ESC}
                 THEN Unterminated(r.e, r.dst, "editor_process_keypress cmd")
                 ELSE {})
           : r \in editor_read_string(e, k)}

\* mode & MODE_SEARCH
KeypressSearch(e, k) ==
    UNION {(IF r.c = KEY_ENTER /\ strlen(r.dst) > 0
            THEN editor_process_search(r.e, r.dst, "SEARCH_FORWARD")
            ELSE {r.e})
           \cup (IF r.c \in {KEY_ENTER, KEY_ESC}
                 THEN Unterminated(r.e, r.dst, "editor_process_keypress search")
                 ELSE {})
           : r \in editor_read_string(e, k)}

\* mode & MODE_NORMAL; k2 is the key read after `g'.
KeypressNormal(e, c, k2) ==
    IF c = KEY_NONE THEN {e}
    ELSE IF IsGlobalKey(c) THEN GlobalKey(e, c)
    ELSE
    CASE c \in {KEY_UP, KEY_DOWN, KEY_RIGHT, KEY_LEFT} -> {editor_move_cursor(e, c, 1)}
      [] c = Ch.h -> {editor_move_cursor(e, KEY_LEFT, 1)}
      [] c = Ch.j -> {editor_move_cursor(e, KEY_DOWN, 1)}
      [] c = Ch.k -> {editor_move_cursor(e, KEY_UP, 1)}
      [] c = Ch.l -> {editor_move_cursor(e, KEY_RIGHT, 1)}
      [] c = Ch.rbracket -> editor_increment_byte(e, 1)
      [] c = Ch.lbracket -> editor_increment_byte(e, -1)
      [] c \in {KEY_DEL, Ch.x} -> editor_delete_char_at_cursor(e)
      [] c = Ch.n -> editor_process_search(e, e.searchstr, "SEARCH_FORWARD")
      [] c = Ch.N -> editor_process_search(e, e.searchstr, "SEARCH_BACKWARD")
      [] c = Ch.a -> {editor_setmode(e, "APPEND")}
      [] c = Ch.A -> {editor_setmode(e, "APPEND_ASCII")}
      [] c = Ch.i -> {editor_setmode(e, "INSERT")}
      [] c = Ch.I -> {editor_setmode(e, "INSERT_ASCII")}
      [] c = Ch.r -> {editor_setmode(e, "REPLACE")}
      [] c = Ch.colon -> {editor_setmode(e, "COMMAND")}
      [] c = Ch.slash -> {editor_setmode(e, "SEARCH")}
      [] c = Ch.u -> editor_undo(e)
      [] c = KEY_CTRL_R -> editor_redo(e)
      [] c = Ch.b -> {editor_move_cursor(e, KEY_LEFT, e.grouping)}
      [] c = Ch.w -> {editor_move_cursor(e, KEY_RIGHT, e.grouping)}
      [] c = Ch.G ->
           {editor_cursor_at_offset(editor_scroll(e, content_length(e)),
                                    content_length(e) - 1)}
      [] c = Ch.g ->
           IF k2 = Ch.g
           THEN {editor_cursor_at_offset([e EXCEPT !.line = 0], 0)}
           ELSE {e}
      [] c = KEY_HOME -> {[e EXCEPT !.cursor_x = 1]}
      [] c = KEY_END ->
           {editor_move_cursor(e, KEY_RIGHT, e.octets_per_line - e.cursor_x)}
      [] c \in {KEY_CTRL_U, KEY_PAGEUP} -> {editor_scroll(e, -(e.screen_rows) + 2)}
      [] c \in {KEY_CTRL_D, KEY_PAGEDOWN} -> {editor_scroll(e, e.screen_rows - 2)}
      [] OTHER -> {e}

(***************************************************************************)
(* The state machine.                                                      *)
(***************************************************************************)
\* The modes in which typed bytes are inserted or appended.
EntryModes == {"INSERT", "INSERT_ASCII", "APPEND", "APPEND_ASCII"}

\* editor_newfile(e, filename)
editor_newfile(e) == [e EXCEPT !.contents = <<>>, !.run = "running"]

\* editor_openfile(e, filename) when the name is that of: a regular file
\* holding e.disk, no file (fopen fails with ENOENT), a file that cannot be
\* opened (fopen fails with another errno) or something that is not a regular
\* file.  The read of a regular file may come short.
editor_openfile(e, named) ==
    CASE named = "missing" -> {editor_newfile(e)}
      [] named = "unreadable" -> {Halt(e, "exited", "Unable to open file")}
      [] named = "not regular" -> {Halt(e, "exited", "is not a regular file")}
      [] named = "regular" ->
           {editor_statusmessage([e EXCEPT !.contents = e.disk, !.run = "running"],
                                 "INFO", "bytes"),
            Halt(e, "exited", "Unable to read file contents")}

\* The state after editor_process_keypress returned t (or the process ended).
Commit(t) ==
    /\ contents' = t.contents
    /\ dirty' = t.dirty
    /\ cursor_x' = t.cursor_x
    /\ cursor_y' = t.cursor_y
    /\ line' = t.line
    /\ octets_per_line' = t.octets_per_line
    /\ grouping' = t.grouping
    /\ screen_rows' = t.screen_rows
    /\ mode' = t.mode
    /\ status_severity' = t.status_severity
    /\ status_message' = t.status_message
    /\ inputbuffer' = t.inputbuffer
    /\ searchstr' = t.searchstr
    /\ hexstr' = t.hexstr
    /\ actions' = t.actions
    /\ curr' = t.curr
    /\ curr_status' = t.curr_status
    /\ run' = t.run
    /\ site' = t.site
    /\ disk' = t.disk
    /\ startfile' = startfile
    /\ nedits' = t.nedits
    /\ edited' = t.edited
    /\ changed' = (t.changed \/ t.contents # contents)
    /\ orig' = orig
    /\ saved' = t.saved
    /\ snap' = IF t.nedits > nedits
               THEN Append(SubSeq(snap, 1, Len(t.actions) - 1), t.contents)
               ELSE snap
    /\ typed_n' = IF t.mode \notin EntryModes \/ t.mode # mode THEN 0
                  ELSE IF t.nedits > nedits THEN typed_n + 1 ELSE typed_n
    /\ typed_at' = IF t.mode \notin EntryModes \/ t.mode # mode THEN 0
                   ELSE IF t.nedits > nedits /\ typed_n = 0
                        THEN editor_offset_at_cursor(Cur)
                        ELSE typed_at

\* The values an uninitialised `enum curr_pos' may hold ("OTHER": none of
\* the four enumerators).
CurrStatusValues == {"BEFORE_HEAD", "NODE", "AFTER_TAIL", "NOTHING", "OTHER"}

\* editor_init() and editor_openfile(): the file's bytes are `buf', the
\* terminal has `rows' rows.  malloc() leaves e->dirty and
\* undo_list->curr_status uninitialised.
InitWith(bufs, rowss) ==
    /\ contents \in bufs
    /\ dirty \in BOOLEAN
    /\ cursor_x = 1
    /\ cursor_y = 1
    /\ line = 0
    /\ octets_per_line = 16
    /\ grouping = 2
    /\ screen_rows \in rowss
    /\ mode = "NORMAL"
    /\ status_severity = "INFO"
    /\ status_message = "bytes"
    /\ inputbuffer = <<>>
    /\ searchstr = <<>>
    /\ hexstr = <<>>
    /\ actions = <<>>
    /\ curr = 0
    /\ curr_status \in CurrStatusValues
    /\ run = "running"
    /\ site = "none"
    /\ disk = contents
    /\ nedits = 0
    /\ orig = contents
    /\ edited = contents
    /\ changed = FALSE
    /\ typed_n = 0
    /\ typed_at = 0
    /\ saved = "none"
    /\ snap = <<>>
    /\ startfile = "regular"

\* One call of editor_process_keypress per mode; an edit is taken only while
\* fewer than `cap' edits have been recorded.
Take(S, cap) == \E t \in S : t.nedits <= cap /\ Commit(t)

HexKey(K, cap) ==
    /\ run = "running" /\ mode \in {"INSERT", "APPEND"}
    /\ \E k \in K : Take(KeypressHex(Cur, k), cap)

AsciiKey(K, cap) ==
    /\ run = "running" /\ mode \in {"INSERT_ASCII", "APPEND_ASCII"}
    /\ \E k \in K : Take(KeypressAscii(Cur, k), cap)

ReplaceKey(K, cap) ==
    /\ run = "running" /\ mode = "REPLACE"
    /\ \E k \in K : Take(KeypressReplace(Cur, k), cap)

CommandKey(K, maxline) ==
    /\ run = "running" /\ mode = "COMMAND"
    /\ \E k \in K : \E t \in KeypressCommand(Cur, k) :
           Len(t.inputbuffer) <= maxline /\ Commit(t)

SearchKey(K, maxline) ==
    /\ run = "running" /\ mode = "SEARCH"
    /\ \E k \in K : \E t \in KeypressSearch(Cur, k) :
           Len(t.inputbuffer) <= maxline /\ Commit(t)

NormalKey(K, cap) ==
    /\ run = "running" /\ mode = "NORMAL"
    /\ \E k \in K : \E k2 \in (IF k = Ch.g THEN K ELSE {KEY_NONE}) :
           Take(KeypressNormal(Cur, k, k2), cap)

\* editor_process_keypress(e) with read_key() = k (and no second key).
editor_process_keypress(e, k) ==
    CASE e.mode \in {"INSERT", "APPEND"} -> KeypressHex(e, k)
      [] e.mode \in {"INSERT_ASCII", "APPEND_ASCII"} -> KeypressAscii(e, k)
      [] e.mode = "REPLACE" -> KeypressReplace(e, k)
      [] e.mode = "COMMAND" -> KeypressCommand(e, k)
      [] e.mode = "SEARCH" -> KeypressSearch(e, k)
      [] OTHER -> KeypressNormal(e, k, KEY_NONE)

(***************************************************************************)
(* Specifications.                                                         *)
(***************************************************************************)
MaxEdits == 2
MaxLine == 2

\* Editing a small file with every mode.
EditBuffers == {<<>>, <<65>>}
EditRows == {3}
EditNormalKeys == {Ch.i, Ch.a, Ch.I, Ch.A, Ch.r, Ch.x, Ch.u, KEY_CTRL_R,
                   Ch.rbracket, Ch.lbracket, Ch.h, Ch.l, Ch.colon,
                   KEY_CTRL_S, KEY_CTRL_Q, KEY_ESC, KEY_NONE}
EditHexKeys == {Ch.d4, Ch.x, KEY_ESC}
EditAsciiKeys == {Ch.x, KEY_ESC}
EditCommandKeys == {Ch.w, Ch.q, Ch.bang, KEY_ENTER, KEY_ESC, KEY_BACKSPACE}

Init == InitWith(EditBuffers, EditRows)

Next ==
    \/ HexKey(EditHexKeys, MaxEdits)
    \/ AsciiKey(EditAsciiKeys, MaxEdits)
    \/ ReplaceKey(EditHexKeys, MaxEdits)
    \/ CommandKey(EditCommandKeys, MaxLine)
    \/ NormalKey(EditNormalKeys, MaxEdits)

Spec == Init /\ [][Next]_vars

\* Typing runs of bytes in the four entry modes, from any cursor position.
MaxTyped == 3
TypeBuffers == {<<>>, <<65>>}
TypeNormalKeys == {Ch.i, Ch.a, Ch.I, Ch.A, Ch.l, Ch.h}
TypeHexKeys == {Ch.d4, Ch.d1, KEY_ESC}
TypeAsciiKeys == {Ch.x, Ch.u, KEY_ESC}

InitType == InitWith(TypeBuffers, EditRows)

NextType ==
    \/ HexKey(TypeHexKeys, MaxTyped)
    \/ AsciiKey(TypeAsciiKeys, MaxTyped)
    \/ NormalKey(TypeNormalKeys, MaxTyped)

SpecType == InitType /\ [][NextType]_vars

\* Edits, undo and redo from normal mode: histories with a redo branch.
MaxHist == 4
HistBuffers == {<<>>, <<65, 66>>}
HistNormalKeys == {Ch.rbracket, Ch.x, Ch.u, KEY_CTRL_R, Ch.l, Ch.A}
HistAsciiKeys == {Ch.x, KEY_ESC}

InitHist == InitWith(HistBuffers, EditRows)

NextHist ==
    \/ NormalKey(HistNormalKeys, MaxHist)
    \/ AsciiKey(HistAsciiKeys, MaxHist)

SpecHist == InitHist /\ [][NextHist]_vars

\* Replacing, incrementing and decrementing bytes, with undo and redo.
MaxRepl == 3
ReplBuffers == {<<65, 66>>}
ReplNormalKeys == {Ch.rbracket, Ch.lbracket, Ch.r, Ch.u, KEY_CTRL_R, Ch.l, Ch.h}
ReplHexKeys == {Ch.d4, Ch.d1, KEY_ESC}

InitRepl == InitWith(ReplBuffers, EditRows)

NextRepl ==
    \/ NormalKey(ReplNormalKeys, MaxRepl)
    \/ ReplaceKey(ReplHexKeys, MaxRepl)

SpecRepl == InitRepl /\ [][NextRepl]_vars

\* Moving through a file of two and a half lines on a terminal that shows two
\* of them, by the movement keys and by decimal offsets on the command line.
NavLength == 42
NavBuffers == {[i \in 1..NavLength |-> 0]}
NavNormalKeys == {Ch.h, Ch.j, Ch.k, Ch.l, Ch.w, Ch.b, Ch.G, Ch.g, Ch.colon,
                  KEY_HOME, KEY_END, KEY_PAGEUP, KEY_PAGEDOWN}
NavCommandKeys == {Ch.d0, Ch.d1, Ch.d4, Ch.d9, KEY_ENTER, KEY_ESC}

InitNav == InitWith(NavBuffers, EditRows)

NextNav ==
    \/ NormalKey(NavNormalKeys, 0)
    \/ CommandKey(NavCommandKeys, MaxLine)

SpecNav == InitNav /\ [][NextNav]_vars

\* Cursor and offset conversions under several line widths and top lines:
\* navigation keys, and command lines handed to editor_process_command as
\* editor_process_keypress does after Enter.
ConvLength == 60
ConvBuffers == {[i \in 1..ConvLength |-> 0]}
ConvNormalKeys == {Ch.h, Ch.j, Ch.k, Ch.l, Ch.G, Ch.g, KEY_PAGEUP, KEY_PAGEDOWN}
ConvCommands == {<<Ch.d0>>, <<Ch.d1, Ch.d9>>, <<Ch.d4, Ch.d1>>,
                 <<Ch.s, Ch.e, Ch.t, Ch.space, Ch.o, Ch.eq, Ch.d1, Ch.d4>>,
                 <<Ch.s, Ch.e, Ch.t, Ch.space, Ch.o, Ch.eq, Ch.d1, Ch.d9>>,
                 <<Ch.s, Ch.e, Ch.t, Ch.space, Ch.o, Ch.eq, Ch.d9, Ch.d9>>}

ProcessCommand(cmds) ==
    /\ run = "running" /\ mode = "NORMAL"
    /\ \E cmd \in cmds : \E t \in editor_process_command(Cur, cmd) : Commit(t)

InitConv == InitWith(ConvBuffers, EditRows)

NextConv ==
    \/ NormalKey(ConvNormalKeys, 0)
    \/ ProcessCommand(ConvCommands)

SpecConv == InitConv /\ [][NextConv]_vars

\* Calls of editor_scroll with units of every size, between cursor moves.
ScrollUnits == {IntMin, -2, -1, 0, 1, 2, IntMax}
ScrollNormalKeys == {Ch.h, Ch.j, Ch.k, Ch.l}

Scroll(U) ==
    /\ run = "running" /\ mode = "NORMAL"
    /\ \E units \in U : \E t \in editor_scroll_int(Cur, units) : Commit(t)

InitScroll == InitWith(ConvBuffers, EditRows)

NextScroll ==
    \/ NormalKey(ScrollNormalKeys, 0)
    \/ Scroll(ScrollUnits)

SpecScroll == InitScroll /\ [][NextScroll]_vars

\* Deleting at the cursor in a file of one line and one byte, on a terminal
\* that shows one or two lines of it: movement keys, 'x' and undo.
DelLength == 17
DelBuffers == {[i \in 1..DelLength |-> i]}
DelRows == {2, 3}
DelNormalKeys == {Ch.x, Ch.h, Ch.l, Ch.G, Ch.u}

InitDel == InitWith(DelBuffers, DelRows)

NextDel == NormalKey(DelNormalKeys, MaxEdits)

SpecDel == InitDel /\ [][NextDel]_vars

\* Deleting in a file of two lines and one byte while the window of two rows
\* is scrolled down: PageDown, PageUp, movement, 'x' and undo.
ShrinkLength == 33
ShrinkBuffers == {[i \in 1..ShrinkLength |-> 0]}
ShrinkNormalKeys == {Ch.x, Ch.l, Ch.u, KEY_PAGEDOWN, KEY_PAGEUP}

InitShrink == InitWith(ShrinkBuffers, EditRows)

NextShrink == NormalKey(ShrinkNormalKeys, MaxEdits)

SpecShrink == InitShrink /\ [][NextShrink]_vars

\* Moving and looking up without editing, in an empty file and in a file of
\* three bytes: every movement key, searches, and goto commands handed to
\* editor_process_command.
LookBuffers == {<<>>, <<65, 66, 65>>}
LookNormalKeys == {Ch.h, Ch.j, Ch.k, Ch.l, Ch.w, Ch.b, Ch.g, Ch.G,
                   KEY_UP, KEY_DOWN, KEY_LEFT, KEY_RIGHT,
                   KEY_HOME, KEY_END, KEY_PAGEUP, KEY_PAGEDOWN,
                   Ch.slash, Ch.n, Ch.N}
LookSearchKeys == {Ch.A, KEY_ENTER}
LookCommands == {<<Ch.d1>>, <<Ch.d9>>, <<Ch.d0, Ch.x, Ch.d1>>}

InitLook == InitWith(LookBuffers, EditRows)

NextLook ==
    \/ NormalKey(LookNormalKeys, 0)
    \/ ProcessCommand(LookCommands)
    \/ SearchKey(LookSearchKeys, MaxLine)

SpecLook == InitLook /\ [][NextLook]_vars

\* Typing a command or a search line of one repeated character up to the
\* size of the input buffer, with Backspace and Enter.
LineBuffers == {<<65>>}
LineNormalKeys == {Ch.colon, Ch.slash}
LineKeys == {Ch.A, KEY_BACKSPACE, KEY_ENTER}

InitLine == InitWith(LineBuffers, EditRows)

NextLine ==
    \/ NormalKey(LineNormalKeys, 0)
    \/ CommandKey(LineKeys, INPUT_BUF_SIZE)
    \/ SearchKey(LineKeys, INPUT_BUF_SIZE)

SpecLine == InitLine /\ [][NextLine]_vars

\* Search lines made of backslashes, 'x' and a hex digit, parsed on Enter.
MaxParseLine == 4
ParseBuffers == {<<65>>}
ParseNormalKeys == {Ch.slash}
ParseLineKeys == {Ch.backslash, Ch.x, Ch.d4, KEY_ENTER}

InitParse == InitWith(ParseBuffers, EditRows)

NextParse ==
    \/ NormalKey(ParseNormalKeys, 0)
    \/ SearchKey(ParseLineKeys, MaxParseLine)

SpecParse == InitParse /\ [][NextParse]_vars

\* Startup on every kind of file name, then cursor keys and deletions.
StartFiles == {"regular", "missing", "unreadable", "not regular"}
StartBuffers == {<<>>, <<65, 66>>}
StartNormalKeys == {Ch.h, Ch.l, Ch.x}

InitStart ==
    /\ startfile \in StartFiles
    /\ disk \in IF startfile = "regular" THEN StartBuffers ELSE {<<>>}
    /\ contents = <<>>
    /\ dirty \in BOOLEAN
    /\ cursor_x = 1
    /\ cursor_y = 1
    /\ line = 0
    /\ octets_per_line = 16
    /\ grouping = 2
    /\ screen_rows \in EditRows
    /\ mode = "NORMAL"
    /\ status_severity = "INFO"
    /\ status_message = ""
    /\ inputbuffer = <<>>
    /\ searchstr = <<>>
    /\ hexstr = <<>>
    /\ actions = <<>>
    /\ curr = 0
    /\ curr_status \in CurrStatusValues
    /\ run = "starting"
    /\ site = "none"
    /\ nedits = 0
    /\ orig = disk
    /\ edited = disk
    /\ changed = FALSE
    /\ typed_n = 0
    /\ typed_at = 0
    /\ saved = "none"
    /\ snap = <<>>

Openfile ==
    /\ run = "starting"
    /\ \E t \in editor_openfile(Cur, startfile) : Commit(t)

NextStart ==
    \/ Openfile
    \/ NormalKey(StartNormalKeys, MaxEdits)

SpecStart == InitStart /\ [][NextStart]_vars

\* Entering and leaving every mode, with Esc, Ctrl-Q, Ctrl-S and a key read
\* interrupted by a signal (read_key() = -1) in each.
MaxModeEdits == 1
ModeBuffers == {<<>>, <<65>>}
ModeGlobalKeys == {KEY_ESC, KEY_CTRL_Q, KEY_CTRL_S}
ModeNoKeys == {KEY_NONE}
ModeAnyKeys == ModeGlobalKeys \cup ModeNoKeys
ModeNormalKeys == {Ch.i, Ch.a, Ch.I, Ch.A, Ch.r, Ch.colon, Ch.slash}
ModeHexKeys == {Ch.d4}
ModeAsciiKeys == {Ch.x}
ModeCommandKeys == {Ch.w, KEY_ENTER}
ModeSearchKeys == {Ch.A, KEY_ENTER}

InitModes == InitWith(ModeBuffers, EditRows)

NextModes ==
    \/ NormalKey(ModeNormalKeys \cup ModeAnyKeys, MaxModeEdits)
    \/ HexKey(ModeHexKeys \cup ModeAnyKeys, MaxModeEdits)
    \/ AsciiKey(ModeAsciiKeys \cup ModeAnyKeys, MaxModeEdits)
    \/ ReplaceKey(ModeHexKeys \cup ModeAnyKeys, MaxModeEdits)
    \/ CommandKey(ModeCommandKeys \cup ModeAnyKeys, MaxLine)
    \/ SearchKey(ModeSearchKeys \cup ModeAnyKeys, MaxLine)

SpecModes == InitModes /\ [][NextModes]_vars

\* The modes that read hex digits: digits, a letter that is no digit, an
\* arrow key, Ctrl-Q and Esc.
HexBuffers == {<<>>, <<65>>}
HexNormalKeys == {Ch.i, Ch.a, Ch.r}
HexKeys == {Ch.d4, Ch.d1, Ch.x, KEY_LEFT, KEY_CTRL_Q, KEY_ESC}

InitHex == InitWith(HexBuffers, EditRows)

NextHex ==
    \/ NormalKey(HexNormalKeys, MaxModeEdits)
    \/ HexKey(HexKeys, MaxModeEdits)
    \/ ReplaceKey(HexKeys, MaxModeEdits)

SpecHex == InitHex /\ [][NextHex]_vars

\* Entering and leaving every mode: the keys that enter a mode, typed in
\* every mode, with Esc, Enter, Backspace, Ctrl-Q and a read without a key.
TransBuffers == {<<>>, <<65>>}
TransAnyKeys == {KEY_ESC, KEY_CTRL_Q, KEY_NONE}
TransNormalKeys == {Ch.i, Ch.a, Ch.I, Ch.A, Ch.r, Ch.colon, Ch.slash}
TransHexKeys == {Ch.d4, Ch.i}
TransAsciiKeys == {Ch.colon}
TransLineKeys == {Ch.A, KEY_ENTER, KEY_BACKSPACE}

InitTrans == InitWith(TransBuffers, EditRows)

NextTrans ==
    \/ NormalKey(TransNormalKeys \cup TransAnyKeys, MaxModeEdits)
    \/ HexKey(TransHexKeys \cup TransAnyKeys, MaxModeEdits)
    \/ AsciiKey(TransAsciiKeys \cup TransAnyKeys, MaxModeEdits)
    \/ ReplaceKey(TransHexKeys \cup TransAnyKeys, MaxModeEdits)
    \/ CommandKey(TransLineKeys \cup TransAnyKeys, MaxLine)
    \/ SearchKey(TransLineKeys \cup TransAnyKeys, MaxLine)

SpecTrans == InitTrans /\ [][NextTrans]_vars

\* Searching a file with two occurrences of a two-byte pattern.
SearchBuffers == {<<65, 66, 67, 65, 66>>}
SearchNormalKeys == {Ch.slash, Ch.n, Ch.N, Ch.l, Ch.h}
SearchLineKeys == {Ch.A, Ch.B, KEY_ENTER, KEY_ESC, KEY_BACKSPACE}

InitSearch == InitWith(SearchBuffers, EditRows)

NextSearch ==
    \/ NormalKey(SearchNormalKeys, 0)
    \/ SearchKey(SearchLineKeys, MaxLine)

SpecSearch == InitSearch /\ [][NextSearch]_vars

\* Searching for an escaped byte in files that hold a zero byte.
MaxEscapeLine == 4
EscapeBuffers == {<<65, 65, 0>>}
EscapeNormalKeys == {Ch.slash, Ch.n, Ch.N}
EscapeLineKeys == {Ch.backslash, Ch.x, Ch.d0, KEY_ENTER, KEY_ESC}

InitEscape == InitWith(EscapeBuffers, EditRows)

NextEscape ==
    \/ NormalKey(EscapeNormalKeys, 0)
    \/ SearchKey(EscapeLineKeys, MaxEscapeLine)

SpecEscape == InitEscape /\ [][NextEscape]_vars

\* ---------------------------------------------------------------------------
\* Properties of the editing session (specification Spec)
\* ---------------------------------------------------------------------------

\* The places where editor_undo / editor_redo apply a buffer operation outside
\* the buffer.
UndoRedoSites == {"editor_undo", "editor_redo"}

\* C1: undo/redo inverse law.  From an empty history, undoing every recorded
\* edit restores the buffer exactly as it was before the edits (the cursor of
\* the history is then before its head), and redoing every one of them
\* restores the buffer as it was after the last edit (the cursor is then on
\* the tail), for every starting buffer including the empty one; undo and redo
\* never apply their inverse operation outside the buffer.
C1_UndoRedoInverse ==
    /\ site \notin UndoRedoSites
    /\ (run = "running" /\ nedits > 0 /\ curr_status = "BEFORE_HEAD")
           => contents = orig
    /\ (run = "running" /\ nedits > 0 /\ curr_status = "NODE"
            /\ curr = Len(actions))
           => contents = edited

\* C3: cursor/offset invariant.  While the editor runs, a non-empty buffer has
\* the offset at the cursor inside [0, length - 1], and an empty buffer has the
\* cursor at (1, 1).
C3_CursorInBuffer ==
    run = "running" =>
        IF Len(contents) > 0
        THEN editor_offset_at_cursor(Cur) \in 0..(Len(contents) - 1)
        ELSE cursor_x = 1 /\ cursor_y = 1

\* C7: unsaved-quit guard.  The plain quit command never ends the program
\* while the buffer differs from what was loaded or last saved.
C7_QuitGuard ==
    ~(run = "exited" /\ site = "q" /\ changed)

\* C8: dirty flag.  Every step that changes the bytes of the buffer leaves the
\* dirty flag set, and the flag is cleared only by a save that reports the
\* bytes written.
C8_DirtyFlag ==
    [][/\ (contents' # contents) => dirty'
       /\ (dirty /\ ~dirty') => status_message' = "bytes written"]_vars

\* C9: save outcome.  A save that opens the file and writes the whole buffer
\* to it clears the dirty flag and reports the bytes written, for every buffer
\* length including 0; a save that fails reports an Error and leaves the dirty
\* flag unchanged; no save changes the buffer.
C9_SaveOutcome ==
    [][(saved' # "none") =>
          /\ contents' = contents
          /\ (saved' = "complete") =>
                 (~dirty' /\ status_severity' = "INFO"
                      /\ status_message' = "bytes written")
          /\ (saved' # "complete") =>
                 (status_severity' = "ERROR" /\ dirty' = dirty)]_vars

\* The places where a buffer operation is applied outside its precondition.
BufferOpSites ==
    {"editor_undo", "editor_redo", "editor_increment_byte",
     "editor_insert_byte", "editor_replace_byte",
     "editor_delete_char_at_cursor"}

\* C10: buffer operations within preconditions.  No reachable step deletes,
\* replaces or increments at an offset outside [0, length - 1], or inserts at
\* an offset outside [0, length]; undo and redo steps included.
C10_BufferOpsInRange ==
    site \notin BufferOpSites

\* ---------------------------------------------------------------------------
\* Properties of typing (specification SpecType)
\* ---------------------------------------------------------------------------

\* C4: typed order.  The bytes entered consecutively in one stay in Insert or
\* InsertAscii mode (resp. Append or AppendAscii mode) lie contiguous and in
\* typed order in the buffer, starting at the offset the cursor had when the
\* first was entered (resp. directly after that offset; an empty buffer has no
\* byte to go after, the run then starts at offset 0), for every starting
\* buffer including the empty one.
C4_TypedOrder ==
    (run = "running" /\ mode \in EntryModes /\ typed_n > 0) =>
        LET first == IF mode \in {"INSERT", "INSERT_ASCII"}
                        \/ Len(contents) = typed_n
                     THEN typed_at
                     ELSE typed_at + 1
        IN  /\ first + typed_n <= Len(contents)
            /\ \A j \in 1..typed_n :
                   contents[first + j] = actions[Len(actions) - typed_n + j].c

\* ---------------------------------------------------------------------------
\* Properties of the history (specification SpecHist)
\* ---------------------------------------------------------------------------

\* The number of actions at or before the cursor of the history.
HistoryPos ==
    CASE curr_status = "NODE" -> curr
      [] curr_status = "BEFORE_HEAD" -> 0
      [] OTHER -> Len(actions)

\* C2: redo-branch pruning.  A step that records a new edit first discards
\* exactly the actions after the cursor of the history and then appends the
\* new action, on which the cursor is left; the actions up to the cursor are
\* kept as they were, and a redo right after the record changes neither the
\* buffer nor the history.
C2_RedoBranchPruned ==
    [][(nedits' = nedits + 1) =>
          /\ Len(actions') = HistoryPos + 1
          /\ SubSeq(actions', 1, HistoryPos) = SubSeq(actions, 1, HistoryPos)
          /\ curr' = Len(actions')
          /\ curr_status' = "NODE"
          /\ \A t \in editor_redo(Cur') :
                 /\ t.run = "running"
                 /\ t.contents = contents'
                 /\ t.actions = actions'
                 /\ t.curr = curr'
                 /\ t.curr_status = curr_status']_vars

\* Three edits, two of them undone, and a fourth edit recorded: the history
\* holds two actions with the cursor on the last.
C2_Witness ==
    /\ run = "running"
    /\ nedits = 4
    /\ Len(actions) = 2
    /\ curr = 2
    /\ curr_status = "NODE"

\* ---------------------------------------------------------------------------
\* Properties of searching (specifications SpecSearch and SpecEscape)
\* ---------------------------------------------------------------------------

\* The bytes of pat occur contiguously in buf from offset p on.
OccursAt(buf, p, pat) ==
    /\ p + Len(pat) <= Len(buf)
    /\ \A j \in 1..Len(pat) : buf[p + j] = pat[j]

\* The cursor, the scroll position and the buffer are left as they were.
CursorStays ==
    /\ cursor_x' = cursor_x
    /\ cursor_y' = cursor_y
    /\ line' = line
    /\ contents' = contents

\* A step of the `N' key: editor_process_search backward with the stored
\* search string.
BackwardStep ==
    /\ run = "running" /\ mode = "NORMAL" /\ searchstr # <<>>
    /\ \E t \in editor_process_search(Cur, searchstr, "SEARCH_BACKWARD") : Commit(t)

\* The search string of a forward search step: the line being entered in
\* search mode, the stored search string in normal mode.
ForwardLine == IF mode = "SEARCH" THEN inputbuffer ELSE searchstr

\* A step that searches forward: Enter on a non-empty line in search mode, or
\* the `n' key in normal mode with a stored search string.
ForwardStep ==
    /\ run = "running" /\ ForwardLine # <<>>
    /\ \/ /\ mode = "SEARCH"
          /\ \E t \in KeypressSearch(Cur, KEY_ENTER) : Commit(t)
       \/ /\ mode = "NORMAL"
          /\ \E t \in editor_process_search(Cur, searchstr, "SEARCH_FORWARD") :
                 Commit(t)

\* C5: backward search.  A backward search from cursor offset s for a
\* non-empty pattern moves the cursor to the largest offset below s at which
\* the pattern occurs, scanning s - 1 down to 0, and otherwise reports that
\* there is none and leaves the cursor in place.
C5_BackwardSearch ==
    [][BackwardStep =>
          LET s == editor_offset_at_cursor(Cur)
              p == parse_search_string(searchstr)
              hits == {q \in 0..(s - 1) : OccursAt(contents, q, p.parsed)}
          IN  (p.err = "PARSE_SUCCESS" /\ p.parsed # <<>>) =>
                  IF hits # {}
                  THEN /\ run' = "running"
                       /\ editor_offset_at_cursor(Cur') =
                              CHOOSE q \in hits : \A r \in hits : r <= q
                  ELSE /\ CursorStays
                       /\ status_message' \in {"String not found",
                                               "Already at start of the file"}]_vars

\* C6: forward search.  A forward search from cursor offset s for a non-empty
\* pattern moves the cursor to the smallest offset in s + 1 .. length - 1 at
\* which the pattern's bytes occur contiguously, and otherwise reports "not
\* found" and leaves the cursor in place, without wrapping around.
C6_ForwardSearch ==
    [][ForwardStep =>
          LET s == editor_offset_at_cursor(Cur)
              p == parse_search_string(ForwardLine)
              hits == {q \in (s + 1)..(Len(contents) - 1) :
                           OccursAt(contents, q, p.parsed)}
          IN  (p.err = "PARSE_SUCCESS" /\ p.parsed # <<>> /\ run' = "running") =>
                  IF hits # {}
                  THEN editor_offset_at_cursor(Cur') =
                           CHOOSE q \in hits : \A r \in hits : q <= r
                  ELSE /\ CursorStays
                       /\ status_message' = "String not found"]_vars

\* ---------------------------------------------------------------------------
\* Properties of undo and redo with nothing to do (specification Spec)
\* ---------------------------------------------------------------------------

\* A step of the `u' key: editor_undo.
UndoStep ==
    /\ run = "running" /\ mode = "NORMAL"
    /\ \E t \in editor_undo(Cur) : Commit(t)

\* A step of the Ctrl-R key: editor_redo.
RedoStep ==
    /\ run = "running" /\ mode = "NORMAL"
    /\ \E t \in editor_redo(Cur) : Commit(t)

\* The step leaves the buffer, the cursor and the history as they were, keeps
\* the editor running and sets an informational status.
NoOpWithInfo ==
    /\ run' = "running"
    /\ contents' = contents
    /\ cursor_x' = cursor_x /\ cursor_y' = cursor_y /\ line' = line
    /\ actions' = actions /\ curr' = curr
    /\ status_severity' = "INFO"

\* C11: nothing to undo/redo is a no-op.  An undo with an empty history or
\* with the cursor of the history before its head, and a redo with an empty
\* history or with the cursor on the last action, leave the buffer, the cursor
\* position and the history unchanged, set only an informational status, and
\* never fail or crash.
C11_NothingToDo ==
    [][/\ (UndoStep /\ (Len(actions) = 0 \/ curr_status = "BEFORE_HEAD"))
              => NoOpWithInfo
       /\ (RedoStep /\ (Len(actions) = 0
                           \/ (curr_status = "NODE" /\ curr = Len(actions))))
              => NoOpWithInfo]_vars

\* ---------------------------------------------------------------------------
\* Properties of replace records (specification SpecRepl)
\* ---------------------------------------------------------------------------

\* C12: replace records stay reversible in both directions.  With a history
\* of Replace actions (typed replaces, increments and decrements, several of
\* them at one offset included), after any alternation of undo and redo the
\* buffer is the one that was there when the action under the cursor of the
\* history was recorded, and the original one when every action is undone:
\* each undo puts back the byte from before that replace, each redo the
\* replacing byte.
C12_ReplaceReversible ==
    run = "running" =>
        contents = IF HistoryPos = 0 THEN orig ELSE snap[HistoryPos]

\* Two replaces of one offset were both undone and the first was redone.
C12_Witness ==
    /\ run = "running"
    /\ Len(actions) = 2
    /\ actions[1].offset = actions[2].offset
    /\ curr_status = "NODE" /\ curr = 1
    /\ status_message = "Redone"
    /\ contents # orig

\* ---------------------------------------------------------------------------
\* Properties of the cursor and the scroll position (specification SpecNav)
\* ---------------------------------------------------------------------------

\* C13: cursor coordinate ranges.  In every state reached by key events the
\* cursor's column is in [1, octets_per_line] and its row is in
\* [1, screen_rows - 1].
C13_CursorRanges ==
    run = "running" =>
        /\ cursor_x \in 1..octets_per_line
        /\ cursor_y \in 1..(screen_rows - 1)

\* ---------------------------------------------------------------------------
\* Properties of the keys of every mode (specification SpecModes)
\* ---------------------------------------------------------------------------

\* A step of the Esc key, in whatever mode the editor is.
EscStep ==
    /\ run = "running"
    /\ \E t \in editor_process_keypress(Cur, KEY_ESC) : Commit(t)

\* C14: Escape always returns to Normal.  From every mode and every buffer
\* state one Esc key leaves the editor running in normal mode, with the
\* buffer, the history, the cursor, the file, the stored search string and the
\* display options as they were: no pending command or search line is
\* executed.
C14_EscToNormal ==
    [][EscStep =>
          /\ mode' = "NORMAL"
          /\ run' = "running"
          /\ contents' = contents
          /\ actions' = actions /\ curr' = curr /\ curr_status' = curr_status
          /\ cursor_x' = cursor_x /\ cursor_y' = cursor_y /\ line' = line
          /\ disk' = disk /\ saved' = "none"
          /\ searchstr' = searchstr
          /\ octets_per_line' = octets_per_line /\ grouping' = grouping]_vars

\* A byte was entered in an insert or append mode and Esc led back to normal
\* mode.
C14_Witness ==
    /\ run = "running"
    /\ mode = "NORMAL"
    /\ nedits > 0
    /\ status_message = ""

\* A step of the Ctrl-Q key, in whatever mode the editor is.
QuitKeyStep ==
    /\ run = "running"
    /\ \E t \in editor_process_keypress(Cur, KEY_CTRL_Q) : Commit(t)

\* A step of the Ctrl-S key, in whatever mode the editor is.
SaveKeyStep ==
    /\ run = "running"
    /\ \E t \in editor_process_keypress(Cur, KEY_CTRL_S) : Commit(t)

\* C15: quit and save keys are global.  In every mode the Ctrl-Q key ends the
\* program and the Ctrl-S key runs the save of the buffer.
C15_GlobalKeys ==
    [][/\ QuitKeyStep => run' = "exited"
       /\ SaveKeyStep => saved' # "none"]_vars

\* ---------------------------------------------------------------------------
\* Deleting at the end of the buffer (specification SpecHist)
\* ---------------------------------------------------------------------------

\* A step of the 'x' key in normal mode: editor_delete_char_at_cursor.
DeleteStep ==
    /\ run = "running" /\ mode = "NORMAL"
    /\ \E t \in editor_delete_char_at_cursor(Cur) : Commit(t)

\* C16: delete-at-end boundary.  Deleting the only byte of a buffer of length
\* one leaves the editor running with an empty buffer, the cursor at (1,1)
\* and one more action in the history, a Delete of that byte at offset 0 on
\* which the history cursor stands; a delete on the empty buffer changes
\* neither the buffer nor the history and reports "Nothing to delete" as a
\* warning.
C16_DeleteAtEnd ==
    [][/\ (DeleteStep /\ Len(contents) = 1) =>
              /\ run' = "running"
              /\ contents' = <<>>
              /\ cursor_x' = 1 /\ cursor_y' = 1
              /\ nedits' = nedits + 1
              /\ actions' # <<>>
              /\ actions'[Len(actions')] =
                     [act |-> "ACTION_DELETE", offset |-> 0, c |-> contents[1]]
              /\ curr_status' = "NODE" /\ curr' = Len(actions')
       /\ (DeleteStep /\ Len(contents) = 0) =>
              /\ run' = "running"
              /\ contents' = contents
              /\ actions' = actions /\ curr' = curr /\ curr_status' = curr_status
              /\ status_severity' = "WARNING"
              /\ status_message' = "Nothing to delete"]_vars

\* The only byte was deleted and the next delete was refused.
C16_Witness ==
    /\ run = "running"
    /\ contents = <<>>
    /\ actions # <<>>
    /\ actions[Len(actions)].act = "ACTION_DELETE"
    /\ actions[Len(actions)].offset = 0
    /\ curr_status = "NODE" /\ curr = Len(actions)
    /\ status_message = "Nothing to delete"

\* ---------------------------------------------------------------------------
\* Cursor and offset conversions (specification SpecConv)
\* ---------------------------------------------------------------------------

\* C17: round trip of offset and cursor.  In every state, whatever the top
\* line and the number of octets per line, placing the cursor with
\* editor_cursor_at_offset at an offset inside the buffer makes
\* editor_offset_at_cursor return that offset.
C17_OffsetRoundTrip ==
    run = "running" =>
        \A offset \in 0..(Len(contents) - 1) :
            editor_offset_at_cursor(editor_cursor_at_offset(Cur, offset)) = offset

\* A goto placed the cursor on offset 41 while the window was scrolled and the
\* line width was not the initial one.
C17_Witness ==
    /\ run = "running"
    /\ line > 0
    /\ octets_per_line = 19
    /\ status_message = "Positioned to offset"
    /\ editor_offset_at_cursor(Cur) = 41

\* ---------------------------------------------------------------------------
\* Scrolling (specification SpecScroll)
\* ---------------------------------------------------------------------------

\* The upper limit of the top line computed by editor_scroll.
ScrollUpperLimit == CDiv(Len(contents), octets_per_line) - (screen_rows - 2)

\* A step that is a call of editor_scroll.
ScrollStep == Scroll(ScrollUnits)

GotoStep(offset) ==
    /\ run = "running" /\ mode = "NORMAL"
    /\ Commit(editor_statusmessage(editor_scroll_to_offset(Cur, offset),
                                   "INFO", "Positioned to offset"))

\* The offset is on one of the rows 1..screen_rows - 1 of the window.
OnScreen(offset) ==
    /\ offset >= line * octets_per_line
    /\ offset < (line + screen_rows - 1) * octets_per_line

\* The top line that centres the offset, clamped to the scroll range.
CentredLine(offset) ==
    ClampLine([Cur EXCEPT !.line = CDiv(offset, octets_per_line)
                                       - CDiv(screen_rows, 2)]).line

\* C19: postcondition of editor_scroll_to_offset.  After a goto to an offset
\* below the length of the buffer the cursor is on that offset and on one of
\* the rows 1..screen_rows - 1; the top line is unchanged when the offset was
\* already on screen and is otherwise offset / octets_per_line -
\* screen_rows / 2 clamped to the scroll range.
C19_ScrollToOffset ==
    [][\A offset \in 0..(Len(contents) - 1) :
           GotoStep(offset) =>
               /\ (cursor_y' - 1 + line') * octets_per_line' + (cursor_x' - 1) = offset
               /\ cursor_y' \in 1..(screen_rows - 1)
               /\ line' = IF OnScreen(offset) THEN line ELSE CentredLine(offset)]_vars

\* ---------------------------------------------------------------------------
\* Parsing of the search line (specification SpecParse)
\* ---------------------------------------------------------------------------

\* The result the search line s stands for, read from its first character on:
\* two backslashes are the byte 0x5c, "\x" and two hex digits are the byte
\* with that value, any other character is itself; a backslash at the end, a
\* "\x" with fewer than two characters after it, a "\x" whose two characters
\* are not both hex digits and a backslash before any other character are the
\* four errors.
\* The hex digits '0'..'9', 'A'..'F', 'a'..'f' and their values.
HexChars == (48..57) \cup (65..70) \cup (97..102)
HexValue(c) == IF c <= 57 THEN c - 48 ELSE IF c <= 70 THEN c - 55 ELSE c - 87

RECURSIVE Decoded(_)
Decoded(s) ==
    IF s = <<>> THEN [err |-> "PARSE_SUCCESS", parsed |-> <<>>]
    ELSE
    LET Cons(b, n) ==
            LET r == Decoded(SubSeq(s, n + 1, Len(s)))
            IN  IF r.err = "PARSE_SUCCESS"
                THEN [err |-> "PARSE_SUCCESS", parsed |-> <<b>> \o r.parsed]
                ELSE r
    IN  IF Head(s) # 92 THEN Cons(Head(s), 1)
        ELSE IF Len(s) = 1 THEN [err |-> "PARSE_INCOMPLETE_BACKSLASH", parsed |-> <<>>]
        ELSE IF s[2] = 92 THEN Cons(92, 2)
        ELSE IF s[2] # 120 THEN [err |-> "PARSE_INVALID_ESCAPE", parsed |-> <<>>]
        ELSE IF Len(s) < 4 THEN [err |-> "PARSE_INCOMPLETE_HEX", parsed |-> <<>>]
        ELSE IF s[3] \notin HexChars \/ s[4] \notin HexChars
        THEN [err |-> "PARSE_INVALID_HEX", parsed |-> <<>>]
        ELSE Cons(16 * HexValue(s[3]) + HexValue(s[4]), 4)

\* The status message of each parse error.
ParseMessage(err) ==
    CASE err = "PARSE_INCOMPLETE_BACKSLASH" -> "Nothing follows backslash"
      [] err = "PARSE_INCOMPLETE_HEX" -> "Incomplete hex value"
      [] err = "PARSE_INVALID_HEX" -> "Invalid hex value"
      [] err = "PARSE_INVALID_ESCAPE" -> "Invalid character after backslash"

\* A step of the Enter key on a search line that is not empty.
SearchEnterStep ==
    /\ run = "running" /\ mode = "SEARCH" /\ inputbuffer # <<>>
    /\ \E t \in KeypressSearch(Cur, KEY_ENTER) : Commit(t)

\* C20: search pattern parsing.  When Enter hands a search line to
\* parse_search_string the result is the decoding of the line: either the
\* bytes it stands for, or the error of its first ill-formed escape, which the
\* step then reports as an error message.
C20_ParseSearchString ==
    [][SearchEnterStep =>
          /\ parse_search_string(inputbuffer) = Decoded(inputbuffer)
          /\ Decoded(inputbuffer).err # "PARSE_SUCCESS" =>
                 /\ status_severity' = "ERROR"
                 /\ status_message' = ParseMessage(Decoded(inputbuffer).err)]_vars

\* The line "\x44" was parsed to the byte 0x44 and searched for.
C20_Witness ==
    /\ run = "running"
    /\ mode = "NORMAL"
    /\ searchstr = <<Ch.backslash, Ch.x, Ch.d4, Ch.d4>>
    /\ Decoded(searchstr).parsed = <<68>>
    /\ status_message = "String not found"

\* ---------------------------------------------------------------------------
\* Goto commands beyond the buffer (specification SpecNav)
\* ---------------------------------------------------------------------------

\* A step of the Enter key on a command line.
CommandEnterStep ==
    /\ run = "running" /\ mode = "COMMAND"
    /\ \E t \in KeypressCommand(Cur, KEY_ENTER) : Commit(t)

\* The command line is a decimal offset, or 0x and a hex offset, greater than
\* the length of the buffer.
GotoBeyondLength ==
    /\ inputbuffer # <<>>
    /\ \/ /\ is_pos_num(inputbuffer)
          /\ strtoimax(inputbuffer, 10) > Len(contents)
       \/ /\ Len(inputbuffer) > 2
          /\ inputbuffer[1] = Ch.d0 /\ inputbuffer[2] = Ch.x
          /\ is_pos_num(SubSeq(inputbuffer, 3, Len(inputbuffer)))
          /\ strtoimax(SubSeq(inputbuffer, 3, Len(inputbuffer)), 16) > Len(contents)

\* C21: an out-of-range goto is rejected.  Enter on a goto command whose
\* offset is greater than the length of the buffer leaves the cursor and the
\* top line where they were and ends with an error status, not with the
\* message of a successful positioning.
C21_GotoOutOfRange ==
    [][(CommandEnterStep /\ GotoBeyondLength) =>
          /\ cursor_x' = cursor_x /\ cursor_y' = cursor_y /\ line' = line
          /\ status_severity' = "ERROR"
          /\ status_message' # "Positioned to offset"]_vars

\* ---------------------------------------------------------------------------
\* Replace mode (specification SpecHex)
\* ---------------------------------------------------------------------------

\* A step of key k in replace mode.
ReplaceKeyStep(k) ==
    /\ run = "running" /\ mode = "REPLACE"
    /\ \E t \in KeypressReplace(Cur, k) : Commit(t)

\* C22: replace is only permitted on a non-empty buffer.  In replace mode on
\* an empty buffer no key changes the buffer or the history.  On a non-empty
\* buffer a key either leaves buffer and history unchanged, or it completes a
\* two-digit entry: then the byte at the cursor is overwritten, the length
\* and the other bytes are as they were and a Replace action with that offset
\* and the byte that was there is recorded.  A hex digit typed after another
\* one does complete the entry, with the value of the two digits.
C22_ReplaceNonEmpty ==
    [][\A k \in HexKeys :
           ReplaceKeyStep(k) =>
               LET o == editor_offset_at_cursor(Cur)
                   same == /\ contents' = contents
                           /\ actions' = actions /\ curr' = curr
                           /\ curr_status' = curr_status
                           /\ nedits' = nedits
                   replaced ==
                       /\ run' = "running"
                       /\ Len(hexstr) = 1
                       /\ Len(contents') = Len(contents)
                       /\ \A i \in 1..Len(contents) :
                              i # o + 1 => contents'[i] = contents[i]
                       /\ nedits' = nedits + 1
                       /\ actions'[Len(actions')] =
                              [act |-> "ACTION_REPLACE", offset |-> o,
                               c |-> contents[o + 1]]
               IN  /\ Len(contents) = 0 => same
                   /\ same \/ replaced
                   /\ (Len(contents) > 0 /\ Len(hexstr) = 1 /\ k \in HexChars
                          /\ hexstr[1] \in HexChars) =>
                         /\ replaced
                         /\ contents'[o + 1] =
                                16 * HexValue(hexstr[1]) + HexValue(k)]_vars

\* The byte 0x41 was overwritten with 0x44 and the Replace action holds 0x41.
C22_Witness ==
    /\ run = "running"
    /\ mode = "REPLACE"
    /\ orig = <<65>> /\ contents = <<68>>
    /\ actions = <<[act |-> "ACTION_REPLACE", offset |-> 0, c |-> 65]>>
    /\ status_message = "Replaced byte"

\* ---------------------------------------------------------------------------
\* The cursor of the history (specification SpecHist)
\* ---------------------------------------------------------------------------

\* The position of the history cursor after a move in the direction dir, as a
\* pair of curr_status and the index of curr (0 when curr is on no action):
\* forwards, from before the head to the first action, from an action to the
\* next one or past the tail; backwards, from an action to the one before it
\* or before the head, from past the tail to the last action; unchanged
\* otherwise and on an empty list.
MoveTable(dir) ==
    IF Len(actions) = 0 THEN <<curr_status, curr>>
    ELSE IF dir > 0
    THEN CASE curr_status = "BEFORE_HEAD" -> <<"NODE", 1>>
           [] curr_status = "NODE" /\ curr < Len(actions) -> <<"NODE", curr + 1>>
           [] curr_status = "NODE" /\ curr = Len(actions) -> <<"AFTER_TAIL", 0>>
           [] OTHER -> <<curr_status, curr>>
    ELSE CASE curr_status = "NODE" /\ curr > 1 -> <<"NODE", curr - 1>>
           [] curr_status = "NODE" /\ curr = 1 -> <<"BEFORE_HEAD", 0>>
           [] curr_status = "AFTER_TAIL" -> <<"NODE", Len(actions)>>
           [] OTHER -> <<curr_status, curr>>

ResizeStep ==
    /\ run = "running"
    /\ \E t \in editor_process_keypress(Cur, KEY_NONE) : Commit(t)

\* C24: a terminal resize is safely interleavable.  In every mode a key read
\* that a resize signal interrupts leaves the editor running with the buffer
\* and the history as they were.
C24_ResizeHarmless ==
    [][ResizeStep =>
          /\ run' = "running"
          /\ contents' = contents
          /\ actions' = actions /\ curr' = curr /\ curr_status' = curr_status]_vars

\* ---------------------------------------------------------------------------
\* Startup (specification SpecStart)
\* ---------------------------------------------------------------------------

\* C25: startup I/O errors are fatal.  The editing loop is entered only when
\* the name given at startup is that of a regular file that could be read:
\* for a missing or unreadable file, or something that is not a regular file,
\* the process exits from editor_openfile.
C25_StartupFatal ==
    /\ run = "running" => startfile = "regular"
    /\ (startfile # "regular" /\ run # "starting") => run = "exited"

\* ---------------------------------------------------------------------------
\* Two-stage hex entry (specification SpecHex)
\* ---------------------------------------------------------------------------

\* A step of key k in a mode that reads hex digits.
HexModeStep(k) ==
    /\ run = "running"
    /\ mode \in {"INSERT", "APPEND"} \/ (mode = "REPLACE" /\ Len(contents) > 0)
    /\ \E t \in editor_process_keypress(Cur, k) : Commit(t)

\* Buffer and history are as they were.
HexEntryIdle ==
    /\ contents' = contents
    /\ actions' = actions /\ curr' = curr /\ curr_status' = curr_status
    /\ nedits' = nedits

\* What a key does in insert, append and replace mode, for the keys in K: the
\* second of two hex digits enters the byte 16 * d1 + d2 (one more byte in
\* insert and append mode, the same length in replace mode) and clears the
\* digits; the first hex digit is only kept; Esc drops the digit, if any, and
\* leads to normal mode; any other key is answered with an error and changes
\* nothing.
HexEntry(K) ==
    \A k \in K :
        HexModeStep(k) =>
            CASE k = KEY_ESC ->
                   HexEntryIdle /\ mode' = "NORMAL" /\ hexstr' = <<>>
              [] k \in HexChars /\ Len(hexstr) = 1 ->
                   LET v == 16 * HexValue(hexstr[1]) + HexValue(k)
                   IN  /\ run' = "running"
                       /\ hexstr' = <<>>
                       /\ nedits' = nedits + 1
                       /\ IF mode = "REPLACE"
                          THEN /\ Len(contents') = Len(contents)
                               /\ contents'[editor_offset_at_cursor(Cur) + 1] = v
                          ELSE /\ Len(contents') = Len(contents) + 1
                               /\ actions'[Len(actions')].c = v
                               /\ contents'[actions'[Len(actions')].offset
                                            + (IF mode = "APPEND" /\ Len(contents) > 0
                                               THEN 2 ELSE 1)] = v
              [] k \in HexChars /\ Len(hexstr) = 0 ->
                   HexEntryIdle /\ hexstr' = <<k>> /\ mode' = mode
              [] OTHER ->
                   /\ HexEntryIdle /\ hexstr' = hexstr /\ mode' = mode
                   /\ status_severity' = "ERROR"

\* C26: two-stage hex entry.  In insert, append and replace mode a byte is
\* entered only by the second of two hex digits d1 d2 and is 16 * d1 + d2; a
\* key that is not a hex digit, an arrow key included, is answered with an
\* error and changes neither buffer nor history; Esc after one digit drops
\* it and returns to normal mode.
C26_TwoStageHex ==
    [][HexEntry(HexKeys)]_vars

\* ---------------------------------------------------------------------------
\* Movement by one byte (specification SpecConv)
\* ---------------------------------------------------------------------------

\* A step of the movement key dir in normal mode: editor_move_cursor(e, dir, 1).
MoveStep(dir) ==
    /\ run = "running" /\ mode = "NORMAL"
    /\ \E t \in editor_process_keypress(Cur, dir) : Commit(t)

\* The top line is inside the range editor_scroll clamps it to.
LineInRange ==
    /\ line >= 0
    /\ line <= IF ScrollUpperLimit > 0 THEN ScrollUpperLimit ELSE 0

\* The cursor is on the column and the row of offset o, before the step.
CursorOn(o) ==
    /\ cursor_x \in 1..octets_per_line
    /\ (cursor_y - 1 + line) * octets_per_line + (cursor_x - 1) = o

\* The same of offset o after the step.
CursorOnNext(o) ==
    /\ cursor_x' \in 1..octets_per_line'
    /\ (cursor_y' - 1 + line') * octets_per_line' + (cursor_x' - 1) = o

\* C27: single-step movement.  With a buffer that is not empty, the top line
\* inside its scroll range and the cursor on offset o, the right key leaves
\* the cursor on offset min(o + 1, length - 1) and the left key on
\* max(o - 1, 0): column 1 of the next row after the last column, the last
\* column of the previous row after column 1, and, for a cursor on one of the
\* rows 1..screen_rows - 1, the top line moves by one line exactly when the
\* cursor would leave these rows.
C27_SingleStep ==
    [][\A o \in 0..(Len(contents) - 1) :
           (LineInRange /\ CursorOn(o)) =>
               /\ MoveStep(KEY_RIGHT) =>
                      /\ CursorOnNext(IF o + 1 < Len(contents) THEN o + 1 ELSE o)
                      /\ cursor_y \in 1..(screen_rows - 1) =>
                             /\ cursor_y' \in 1..(screen_rows - 1)
                             /\ line' = IF cursor_x = octets_per_line
                                           /\ cursor_y = screen_rows - 1
                                        THEN line + 1 ELSE line
               /\ MoveStep(KEY_LEFT) =>
                      /\ CursorOnNext(IF o > 0 THEN o - 1 ELSE 0)
                      /\ cursor_y \in 1..(screen_rows - 1) =>
                             /\ cursor_y' \in 1..(screen_rows - 1)
                             /\ line' = IF cursor_x = 1 /\ cursor_y = 1 /\ line > 0
                                        THEN line - 1 ELSE line]_vars

\* ---------------------------------------------------------------------------
\* Deleting at the cursor (specification SpecDel)
\* ---------------------------------------------------------------------------

\* The offset the cursor addresses after the step.
OffsetAtCursorNext ==
    editor_offset_at_cursor([Cur EXCEPT !.cursor_x = cursor_x',
                                        !.cursor_y = cursor_y',
                                        !.line = line',
                                        !.octets_per_line = octets_per_line',
                                        !.contents = contents'])

TransKeys ==
    TransAnyKeys \cup TransNormalKeys \cup TransHexKeys \cup TransAsciiKeys
                 \cup TransLineKeys

\* The key that enters each mode other than normal mode.
EnterKey ==
    [m \in {"APPEND", "APPEND_ASCII", "INSERT", "INSERT_ASCII", "REPLACE",
            "COMMAND", "SEARCH"} |->
        CASE m = "APPEND" -> Ch.a
          [] m = "APPEND_ASCII" -> Ch.A
          [] m = "INSERT" -> Ch.i
          [] m = "INSERT_ASCII" -> Ch.I
          [] m = "REPLACE" -> Ch.r
          [] m = "COMMAND" -> Ch.colon
          [] m = "SEARCH" -> Ch.slash]

\* A step of key k, in whatever mode the editor is.
KeyStep(k) ==
    /\ run = "running"
    /\ \E t \in editor_process_keypress(Cur, k) : Commit(t)

\* C29: mode transition relation.  A key event that changes the mode either
\* leaves normal mode for the mode of that key (a, A, i, I, r, ':', '/') or
\* leads from another mode to normal mode, and then the key is Esc, or, in
\* command and search mode, Enter or Backspace on an empty line: no key leads
\* from a mode other than normal mode to a different one.
C29_ModeTransitions ==
    [][\A k \in TransKeys :
           (KeyStep(k) /\ mode' # mode) =>
               IF mode = "NORMAL"
               THEN mode' \in DOMAIN EnterKey /\ k = EnterKey[mode']
               ELSE /\ mode' = "NORMAL"
                    /\ \/ k = KEY_ESC
                       \/ /\ mode \in {"COMMAND", "SEARCH"}
                          /\ \/ k = KEY_ENTER
                             \/ k = KEY_BACKSPACE /\ inputbuffer = <<>>]_vars

\* Normal mode again after a byte was entered in an insert or append mode
\* and a search line was executed by Enter.
C29_Witness ==
    /\ run = "running"
    /\ mode = "NORMAL"
    /\ nedits > 0
    /\ searchstr # <<>>

\* ---------------------------------------------------------------------------
\* The input accumulators (specification SpecTrans)
\* ---------------------------------------------------------------------------

\* The command and search line is empty and no hex digit is pending.
AccumulatorsEmpty == inputbuffer = <<>> /\ hexstr = <<>>

\* C30: input accumulators are reset on mode transitions.  In every state in
\* which the editor runs in normal mode the command and search line is empty
\* and no hex digit is pending, and every step that enters another mode from
\* normal mode starts it with both empty.
C30_AccumulatorsReset ==
    /\ []((run = "running" /\ mode = "NORMAL") => AccumulatorsEmpty)
    /\ [][(run = "running" /\ mode = "NORMAL" /\ mode' # "NORMAL") =>
              (inputbuffer' = <<>> /\ hexstr' = <<>>)]_vars

\* Normal mode with both accumulators empty after they were used: two hex
\* digits entered the byte 0x44 and a search line was executed.
C30_Witness ==
    /\ run = "running"
    /\ mode = "NORMAL"
    /\ AccumulatorsEmpty
    /\ \E i \in 1..Len(contents) : contents[i] = 68
    /\ searchstr # <<>>
    /\ status_message = ""

\* ---------------------------------------------------------------------------
\* The highlighted cell (specification SpecNav)
\* ---------------------------------------------------------------------------

\* The position of the highlighted cell, without the clamp of
\* editor_offset_at_cursor.
UnclampedOffset == (cursor_y - 1 + line) * octets_per_line + (cursor_x - 1)

\* C31: the highlighted cursor cell is an existing byte.  In every state in
\* which the editor runs on a buffer that is not empty, the unclamped position
\* of the cursor is inside [0, length - 1] and is the offset
\* editor_offset_at_cursor returns.
C31_CellIsByte ==
    (run = "running" /\ Len(contents) > 0) =>
        /\ UnclampedOffset \in 0..(Len(contents) - 1)
        /\ UnclampedOffset = editor_offset_at_cursor(Cur)

\* ---------------------------------------------------------------------------
\* The top line in every state (specification SpecShrink)
\* ---------------------------------------------------------------------------

\* C32: the scroll position stays in range.  In every state in which the
\* editor runs, whatever keys led to it, the top line is at least 0 and at
\* most the larger of 0 and length / octets_per_line - (screen_rows - 2).
C32_LineInRange ==
    run = "running" => LineInRange

\* ---------------------------------------------------------------------------
\* The size of the history (specification SpecHist)
\* ---------------------------------------------------------------------------

\* The keys of normal mode that move the cursor or the window.
MoveKeys ==
    {KEY_UP, KEY_DOWN, KEY_LEFT, KEY_RIGHT, Ch.h, Ch.j, Ch.k, Ch.l, Ch.w, Ch.b,
     Ch.G, KEY_HOME, KEY_END, KEY_PAGEUP, KEY_PAGEDOWN}

SearchStepFor(pat) ==
    \/ ForwardStep /\ parse_search_string(ForwardLine).err = "PARSE_SUCCESS"
                   /\ parse_search_string(ForwardLine).parsed = pat
    \/ BackwardStep /\ parse_search_string(searchstr).err = "PARSE_SUCCESS"
                    /\ parse_search_string(searchstr).parsed = pat

\* The search of this step reported a hit: it cleared the status line and
\* placed the cursor.
HitReported == run' = "running" /\ status_message' = ""

\* The offset the cursor was placed on by the step.
OffsetNext == (cursor_y' - 1 + line') * octets_per_line' + (cursor_x' - 1)

\* The patterns of at most n bytes over the bytes in B.
PatternsOver(B, n) == UNION {[1..m -> B] : m \in 1..n}

\* C34: search hits lie inside the buffer.  A search, forward or backward,
\* never reads the buffer past its last byte, so it returns, and every offset
\* p it reports as a hit has p + |pattern| <= length and the pattern's bytes
\* at p .. p + |pattern| - 1.
C34_HitsInside ==
    [][\A pat \in PatternsOver({Ch.A, Ch.B}, MaxLine) :
           SearchStepFor(pat) =>
               /\ run' = "running"
               /\ HitReported => OccursAt(contents, OffsetNext, pat)]_vars

\* C35: patterns containing a zero byte are matched in full.  A hit reported
\* for a pattern that holds the byte 0 has every byte of the pattern, the
\* zero byte and those after it included, equal to the buffer's bytes from
\* the hit on.
C35_ZeroByteMatched ==
    [][\A pat \in PatternsOver({0, Ch.backslash}, MaxEscapeLine) :
           (SearchStepFor(pat) /\ \E i \in 1..Len(pat) : pat[i] = 0) =>
               (HitReported => OccursAt(contents, OffsetNext, pat))]_vars

\* ---------------------------------------------------------------------------
\* Navigation and lookup (specification SpecLook)
\* ---------------------------------------------------------------------------

\* The buffer, the dirty flag and the history are as they were.
FileUntouched ==
    /\ contents' = contents
    /\ dirty' = dirty
    /\ actions' = actions /\ curr' = curr /\ curr_status' = curr_status
    /\ nedits' = nedits

\* A step of a movement key or of 'n' or 'N' in normal mode, 'g' with its
\* second key included.
LookupKeyStep ==
    /\ run = "running" /\ mode = "NORMAL"
    /\ \E k \in MoveKeys \cup {Ch.g, Ch.n, Ch.N, Ch.slash} :
           \E k2 \in {Ch.g, Ch.h, KEY_NONE} :
               \E t \in KeypressNormal(Cur, k, k2) : Commit(t)

\* A key of the search line, Enter included, or a goto command.
LookupLineStep ==
    /\ run = "running"
    /\ \/ /\ mode = "SEARCH"
          /\ \E k \in LookSearchKeys : \E t \in KeypressSearch(Cur, k) : Commit(t)
       \/ ProcessCommand(LookCommands)

\* C36: navigation and lookup never modify the file.  The movement keys, the
\* searches (the search line, 'n' and 'N') and the goto commands leave the
\* bytes and the length of the buffer, the dirty flag and the history as they
\* were, for the empty buffer as for any other.
C36_LookupKeepsFile ==
    [][(LookupKeyStep \/ LookupLineStep) => FileUntouched]_vars

\* A goto command and a search were executed on the empty buffer.
C36_Witness ==
    /\ Len(contents) = 0
    /\ mode = "NORMAL"
    /\ searchstr # <<>>
    /\ status_message \in {"Positioned to offset", "Out of range"}

\* ---------------------------------------------------------------------------
\* The length of the input line (specification SpecLine)
\* ---------------------------------------------------------------------------

\* C37: bounded input line.  In every state in which the editor runs, the
\* command and search line holds at most INPUT_BUF_SIZE - 1 characters
\* (inputbuffer_index < INPUT_BUF_SIZE), so that a terminating NUL follows
\* them in the array.
C37_LineBounded ==
    run = "running" => Len(inputbuffer) <= INPUT_BUF_SIZE - 1

\* ---------------------------------------------------------------------------
\* The position in the history (specification SpecHist)
\* ---------------------------------------------------------------------------

\* C38: AFTER_TAIL is unreachable through the editor.  Starting from the
\* empty history and under every sequence of recorded edits, undos and redos,
\* the status of the history is never AFTER_TAIL, curr is on an action exactly
\* when the status is NODE, and neither editor_undo nor editor_redo stops on
\* a dereference of an action that does not exist.
C38_NoAfterTail ==
    /\ run = "running" =>
           /\ curr_status # "AFTER_TAIL"
           /\ curr # 0 <=> curr_status = "NODE"
    /\ site \notin {"editor_undo last_action", "editor_redo curr"}


====
